---- MODULE Spec2Model ----
(***************************************************************************)
(* Association and reconciliation engine of Sidewise                       *)
(* (src/js/ui/classes/FancyTree.dragDrop.js, lines 871-1978).              *)
(*                                                                         *)
(* The engine binds live tabs ("entities") to persisted page nodes, one    *)
(* association run at a time, and repairs the tree afterwards with the     *)
(* rectifyAssociations pipeline.  Everything runs as callbacks on one      *)
(* event loop: each action below is one callback run to completion.        *)
(***************************************************************************)
EXTENDS Integers, Sequences, FiniteSets, TLC

(***************************************************************************)
(* Program constants                                                       *)
(***************************************************************************)
ASSOCIATE_PAGES_CHECK_INTERVAL_MS == 1000
ASSOCIATE_STUBBORN_TAB_FALLBACK_THRESHOLD_MS == 15000
ASSOCIATE_STUBBORN_TAB_FALLBACK_THRESHOLD_ITERATIONS ==
    ASSOCIATE_STUBBORN_TAB_FALLBACK_THRESHOLD_MS \div ASSOCIATE_PAGES_CHECK_INTERVAL_MS
ASSOCIATE_GET_DETAILS_MAX_RETRIES == 30
DEFAULT_DISAMBIGUATION_ITERATIONS == 3

(***************************************************************************)
(* Bounds of the model                                                     *)
(***************************************************************************)
MaxExternalStarts == 2     \* calls of startAssociationRun from outside the engine
MaxRuns == 3                \* association runs created in one behaviour
MaxStubbornRuns == 17       \* the same, where a tab is followed up to its fallback
MaxIterationsArg == 4      \* largest explicit argument of disambiguatePageNodesByWindowId
MaxFastNodes == 2          \* page nodes of the trees a tab is fast-matched in
MaxPartnerNodes == 3       \* page nodes of the trees a swap partner is chosen in
MaxDisNodes == 3           \* page nodes of the trees disambiguation is applied to on its own
RoundFuel == 8             \* rounds after which the model stops following a disambiguation

(***************************************************************************)
(* Values.  null ids are 0, a null position index is -1.                   *)
(***************************************************************************)
Root == 0
NoId == 0
NoIndex == 0 - 1

(***************************************************************************)
(* URLs.  A url is kept as a short name; UrlParts gives the parts the      *)
(* regular expressions of the source look at.                              *)
(***************************************************************************)

UrlParts(u) ==
    CASE u = ""         -> [scheme |-> "", host |-> "", path |-> "", q |-> "", sei |-> "", hash |-> ""]
      [] u = "a"        -> [scheme |-> "http", host |-> "a.example.com", path |-> "/", q |-> "", sei |-> "", hash |-> ""]
      [] u = "b"        -> [scheme |-> "https", host |-> "b.example.com", path |-> "/", q |-> "", sei |-> "", hash |-> ""]
      [] u = "settings" -> [scheme |-> "chrome", host |-> "settings", path |-> "/", q |-> "", sei |-> "", hash |-> ""]
      [] u = "newtab"   -> [scheme |-> "chrome", host |-> "newtab", path |-> "/", q |-> "", sei |-> "", hash |-> ""]
      [] u = "file"     -> [scheme |-> "file", host |-> "", path |-> "/tmp/x.html", q |-> "", sei |-> "", hash |-> ""]
      [] u = "webstore" -> [scheme |-> "https", host |-> "chrome.google.com", path |-> "/webstore", q |-> "", sei |-> "", hash |-> ""]
      [] u = "g1x"      -> [scheme |-> "https", host |-> "www.google.com", path |-> "/search", q |-> "cats", sei |-> "X", hash |-> ""]
      [] u = "g1y"      -> [scheme |-> "https", host |-> "www.google.com", path |-> "/search", q |-> "cats", sei |-> "Y", hash |-> "h"]
      [] u = "g2x"      -> [scheme |-> "https", host |-> "www.google.com", path |-> "/search", q |-> "dogs", sei |-> "X", hash |-> ""]
      [] u = "sidebar"  -> [scheme |-> "chrome-extension", host |-> "sidewise", path |-> "/sidebar.html", q |-> "", sei |-> "", hash |-> ""]

\* tab.url == chrome.extension.getURL('/sidebar.html')
isSidebarUrl(u) == u = "sidebar"

\* url.match('^(about|file|view-source|chrome.*):'), '^https?://chrome.google.com/webstore'
isScriptableUrl(u) ==
    LET p == UrlParts(u) IN
    ~ ( u = ""
        \/ p.scheme \in {"about", "file", "view-source", "chrome", "chrome-extension", "chrome-devtools"}
        \/ (p.scheme \in {"http", "https"} /\ p.host = "chrome.google.com" /\ p.path = "/webstore") )

isNewTabUrl(u) == u = "newtab"

\* /^https?:\/\/.*google.*\/search\?q=/
isGoogleSearchUrl(u) ==
    LET p == UrlParts(u) IN
    p.scheme \in {"http", "https"} /\ p.host \in {"www.google.com"} /\ p.path = "/search" /\ p.q # ""

\* url.replace(/sei=[a-zA-Z0-9]+/g, '').replace(/\#.+$/, ''): what is left of the url
getGoogleTestUrl(u) ==
    LET p == UrlParts(u) IN <<p.scheme, p.host, p.path, p.q>>

(***************************************************************************)
(* Referrers are "", "r1", "r2", "gb1", "gb2"; the last two match          *)
(* CHROME_BLANKABLE_REFERRER_REGEXP.                                       *)
(***************************************************************************)
IsBlankableReferrer(r) == r \in {"gb1", "gb2"}

(***************************************************************************)
(* The tree store.  A tree T is [n |-> node id -> node, c |-> node id ->   *)
(* sequence of child ids (Root included), next |-> the next fresh id].     *)
(* The store itself is an external collaborator of the engine: these       *)
(* operators give its query/mutation interface.                            *)
(***************************************************************************)

RECURSIVE Flat(_, _)
\* the nodes under the sequence s of siblings, in tree (depth-first) order
Flat(T, s) ==
    IF s = <<>> THEN <<>>
    ELSE <<Head(s)>> \o Flat(T, T.c[Head(s)]) \o Flat(T, Tail(s))

AllNodes(T) == Flat(T, T.c[Root])

SeqRange(s) == {s[i] : i \in 1..Len(s)}

IndexOf(s, x) == IF \E i \in 1..Len(s) : s[i] = x
                 THEN CHOOSE i \in 1..Len(s) : s[i] = x /\ \A j \in 1..(i-1) : s[j] # x
                 ELSE 0

RemoveElem(s, x) == SelectSeq(s, LAMBDA y : y # x)

InsertAt(s, i, x) == SubSeq(s, 1, i - 1) \o <<x>> \o SubSeq(s, i, Len(s))

ParentOf(T, n) ==
    IF \E p \in DOMAIN T.c : n \in SeqRange(T.c[p])
    THEN CHOOSE p \in DOMAIN T.c : n \in SeqRange(T.c[p])
    ELSE Root

RECURSIVE topParent(_, _)
\* node.topParent(): the ancestor of n (or n itself) that is a child of the root
topParent(T, n) ==
    IF ParentOf(T, n) = Root THEN n ELSE topParent(T, ParentOf(T, n))

Descendants(T, n) == SeqRange(Flat(T, T.c[n]))

\* tree.filter(pred, inArray) / tree.getNode(pred): matching nodes in tree order
Filter(T, s, Pred(_)) == SelectSeq(Flat(T, s), Pred)
FirstOf(s) == IF s = <<>> THEN NoId ELSE Head(s)

isTab(T, n) == T.n[n].kind = "page" /\ ~T.n[n].hibernated
isWindow(T, n) == T.n[n].kind = "window"

\* tree.getNode(['chromeId', id]): the node indexed under this external id
getNodeByChromeId(T, id) ==
    FirstOf(Filter(T, T.c[Root], LAMBDA m : T.n[m].chromeId = id /\ id # NoId))

\* tree.expandNode(node)
expandNode(T, n) == [T EXCEPT !.n[n].collapsed = FALSE]

Detach(T, n) == [T EXCEPT !.c = [p \in DOMAIN T.c |-> RemoveElem(T.c[p], n)]]

\* tree.moveNodeRel(node, relation, target): the node moves with its subtree
moveNodeRel(T, n, rel, t) ==
    IF n = t \/ t \in Descendants(T, n) THEN T
    ELSE LET D == Detach(T, n)
             tp == ParentOf(D, t)
             i == IndexOf(D.c[tp], t)
         IN CASE rel = "before"  -> [D EXCEPT !.c[tp] = InsertAt(D.c[tp], i, n)]
              [] rel = "after"   -> [D EXCEPT !.c[tp] = InsertAt(D.c[tp], i + 1, n)]
              [] rel = "prepend" -> [D EXCEPT !.c[t] = <<n>> \o D.c[t]]
              [] rel = "append"  -> [D EXCEPT !.c[t] = D.c[t] \o <<n>>]

\* tree.removeNode(node): the node goes, its children take its place
removeNode(T, n) ==
    LET p == ParentOf(T, n)
        i == IndexOf(T.c[p], n)
        kids == T.c[n]
        keep == DOMAIN T.n \ {n}
    IN [n |-> [m \in keep |-> T.n[m]],
        c |-> [m \in keep \cup {Root} |->
                 IF m = p THEN SubSeq(T.c[p], 1, i - 1) \o kids \o SubSeq(T.c[p], i + 1, Len(T.c[p]))
                 ELSE T.c[m]],
        next |-> T.next]

\* tree.mergeNodes(fromNode, toNode): toNode takes fromNode's children, fromNode goes
mergeNodes(T, from, to) ==
    IF from = to \/ from \notin DOMAIN T.n \/ to \notin DOMAIN T.n \/ to \in Descendants(T, from) THEN T
    ELSE LET keep == DOMAIN T.n \ {from}
         IN [n |-> [m \in keep |-> T.n[m]],
             c |-> [m \in keep \cup {Root} |->
                      IF m = to THEN T.c[to] \o T.c[from]
                      ELSE RemoveElem(T.c[m], from)],
             next |-> T.next]

\* tree.addNode(node, parent): a fresh node, appended to the parent's children
addNode(T, rec, parent) ==
    LET id == T.next IN
    [n |-> [m \in DOMAIN T.n \cup {id} |-> IF m = id THEN rec ELSE T.n[m]],
     c |-> [m \in DOMAIN T.c \cup {id} |->
              IF m = id THEN <<>>
              ELSE IF m = parent THEN T.c[m] \o <<id>> ELSE T.c[m]],
     next |-> id + 1]

\* tree.getTabIndex(page): the page's place among the tabs of its window, in tree order
getTabIndex(T, n) ==
    LET same == Filter(T, T.c[Root], LAMBDA m : isTab(T, m) /\ T.n[m].windowId = T.n[n].windowId)
    IN IndexOf(same, n) - 1

(***************************************************************************)
(* Node constructors                                                       *)
(***************************************************************************)
\* new PageNode(tab)
PageNode(tab, tid) ==
    [kind |-> "page", chromeId |-> tid, windowId |-> tab.windowId, index |-> tab.index,
     url |-> tab.url, title |-> tab.title, referrer |-> "", historylength |-> 1,
     pinned |-> tab.pinned, incognito |-> tab.incognito,
     hibernated |-> FALSE, restorable |-> FALSE, collapsed |-> FALSE, type |-> "normal",
     old |-> FALSE]

\* new WindowNode({ id: windowId, incognito: ..., type: 'normal' })
WindowNode(wid, incog) ==
    [kind |-> "window", chromeId |-> wid, windowId |-> NoId, index |-> NoIndex,
     url |-> "", title |-> "", referrer |-> "", historylength |-> 1,
     pinned |-> FALSE, incognito |-> incog,
     hibernated |-> FALSE, restorable |-> FALSE, collapsed |-> FALSE, type |-> "normal",
     old |-> FALSE]

\* tree.addTabToWindow(tab, pageNode): under the window node bound to tab.windowId,
\* which is created when there is none; an existing pageNode is moved there
addTabToWindow(T, tab, tid, page) ==
    LET w0 == getNodeByChromeId(T, tab.windowId)
        T1 == IF w0 = NoId THEN addNode(T, WindowNode(tab.windowId, tab.incognito), Root) ELSE T
        w == IF w0 = NoId THEN T.next ELSE w0
    IN IF page = NoId THEN addNode(T1, PageNode(tab, tid), w)
       ELSE moveNodeRel(T1, page, "append", w)


(***************************************************************************)
(* Matcher.  An optional criterion is a set: {} when omitted, {v} when     *)
(* supplied.                                                               *)
(***************************************************************************)
NoParams ==
    [mustBeHibernated |-> FALSE, mustBeRestorable |-> FALSE,
     topParentMustBeRealOrRestorableWindow |-> FALSE,
     url |-> "", title |-> {}, referrer |-> {}, historylength |-> {},
     pinned |-> {}, incognito |-> {}, notMatchingNode |-> {}]

\* a fallback comparison of the referrers as they are
FallbackReferrerKept(r) == r

\* the referrer compared in the fallback comparison: blank when Chrome may have blanked it
FallbackReferrer(r) == IF r # "" /\ IsBlankableReferrer(r) THEN "" ELSE r

\* a comparison that treats pinned nodes like the others
ReferrerMatchPinnedAlike(T, params, node) ==
    \/ params.referrer = {}
    \/ T.n[node].referrer \in params.referrer
    \/ \E r \in params.referrer : FallbackReferrer(r) = FallbackReferrer(T.n[node].referrer)

\* lines 1487-1510 of testNodeForAssociation
ReferrerMatch(T, params, node) ==
    \/ params.referrer = {}
    \/ T.n[node].referrer \in params.referrer
    \/ (params.pinned = {TRUE} /\ T.n[node].pinned)
    \/ \E r \in params.referrer : FallbackReferrer(r) = FallbackReferrer(T.n[node].referrer)

UrlMatch(testUrl, nodeUrl) ==
    IF ~isGoogleSearchUrl(testUrl) THEN testUrl = nodeUrl
    ELSE isGoogleSearchUrl(nodeUrl) /\ getGoogleTestUrl(nodeUrl) = getGoogleTestUrl(testUrl)

TopParentIsRealOrRestorableWindow(T, node) ==
    LET tp == topParent(T, node) IN
    /\ isWindow(T, tp)
    /\ ~(T.n[tp].restorable = FALSE /\ T.n[tp].hibernated = TRUE)

testNodeForAssociation(T, params, node) ==
    /\ T.n[node].kind = "page"
    /\ (~params.mustBeHibernated \/ T.n[node].hibernated)
    /\ (~params.mustBeRestorable \/ T.n[node].restorable)
    /\ UrlMatch(params.url, T.n[node].url)
    /\ (params.title \subseteq {""} \/ T.n[node].title \in params.title)
    /\ (params.incognito = {} \/ T.n[node].incognito \in params.incognito)
    /\ (params.pinned = {} \/ T.n[node].pinned \in params.pinned)
    /\ (params.historylength = {} \/ T.n[node].historylength \in params.historylength)
    /\ (params.notMatchingNode = {} \/ node \notin params.notMatchingNode)
    /\ (~params.topParentMustBeRealOrRestorableWindow \/ TopParentIsRealOrRestorableWindow(T, node))
    /\ ReferrerMatch(T, params, node)

\* findPageNodeForAssociation(params, true): every match, in tree order
findAllPageNodesForAssociation(T, params) ==
    Filter(T, T.c[Root], LAMBDA m : testNodeForAssociation(T, params, m))

\* findPageNodeForAssociation(params): the first match in tree order, NoId when none
findPageNodeForAssociation(T, params) == FirstOf(findAllPageNodesForAssociation(T, params))

(***************************************************************************)
(* Restore primitives                                                      *)
(***************************************************************************)
\* restoring the container although another node shares the child's key
restoreParentWindowIgnoringUniqueness(T, parentWindowNode, childPageNode, childWindowId) ==
    IF ~isWindow(T, parentWindowNode) \/ ~T.n[parentWindowNode].hibernated THEN T
    ELSE LET existingWinNode == getNodeByChromeId(T, childWindowId)
             T1 == IF existingWinNode # NoId THEN mergeNodes(T, existingWinNode, parentWindowNode) ELSE T
         IN expandNode([T1 EXCEPT !.n[parentWindowNode].restorable = FALSE,
                                  !.n[parentWindowNode].hibernated = FALSE,
                                  !.n[parentWindowNode].chromeId = childWindowId], parentWindowNode)

restoreParentWindowViaUniqueChildPageNode(T, parentWindowNode, childPageNode, childWindowId) ==
    IF ~isWindow(T, parentWindowNode) \/ ~T.n[parentWindowNode].hibernated THEN T
    ELSE LET c == T.n[childPageNode]
             otherMatch == findPageNodeForAssociation(T,
                 [NoParams EXCEPT !.url = c.url, !.title = {c.title}, !.referrer = {c.referrer},
                                  !.historylength = {c.historylength},
                                  !.notMatchingNode = {childPageNode},
                                  !.pinned = {c.pinned}, !.incognito = {c.incognito}])
         IN IF otherMatch # NoId THEN T
            ELSE LET existingWinNode == getNodeByChromeId(T, childWindowId)
                     T1 == IF existingWinNode # NoId
                           THEN mergeNodes(T, existingWinNode, parentWindowNode) ELSE T
                 IN expandNode([T1 EXCEPT !.n[parentWindowNode].restorable = FALSE,
                                          !.n[parentWindowNode].hibernated = FALSE,
                                          !.n[parentWindowNode].chromeId = childWindowId],
                               parentWindowNode)

\* a restore that leaves the node the position it had
restoreAssociatedPageKeepingIndex(T, tab, tid, page) ==
    LET T1 == [T EXCEPT !.n[page].hibernated = FALSE, !.n[page].restorable = FALSE,
                        !.n[page].chromeId = tid, !.n[page].windowId = tab.windowId,
                        !.n[page].pinned = tab.pinned]
    IN restoreParentWindowViaUniqueChildPageNode(T1, topParent(T1, page), page, tab.windowId)

\* a restore that marks the page's container restorable again
restoreAssociatedPageRearmingWindow(T, tab, tid, page) ==
    LET T1 == [T EXCEPT !.n[page].hibernated = FALSE, !.n[page].restorable = FALSE,
                        !.n[page].chromeId = tid, !.n[page].windowId = tab.windowId,
                        !.n[page].index = tab.index, !.n[page].pinned = tab.pinned]
        T2 == restoreParentWindowViaUniqueChildPageNode(T1, topParent(T1, page), page, tab.windowId)
    IN [T2 EXCEPT !.n[topParent(T2, page)].restorable = TRUE]

restoreAssociatedPage(T, tab, tid, page) ==
    LET T1 == [T EXCEPT !.n[page].hibernated = FALSE, !.n[page].restorable = FALSE,
                        !.n[page].chromeId = tid, !.n[page].windowId = tab.windowId,
                        !.n[page].index = tab.index, !.n[page].pinned = tab.pinned]
    IN restoreParentWindowViaUniqueChildPageNode(T1, topParent(T1, page), page, tab.windowId)

\* candidates looked for in the whole tree, whatever window nodes exist
FastMatchesTreeWide(T, tab, mustBeRestorable) ==
    Filter(T, T.c[Root], LAMBDA e :
            /\ T.n[e].kind = "page"
            /\ T.n[e].hibernated
            /\ (~mustBeRestorable \/ T.n[e].restorable)
            /\ tab.url = T.n[e].url
            /\ tab.index = T.n[e].index
            /\ tab.incognito = T.n[e].incognito
            /\ tab.pinned = T.n[e].pinned)

\* the candidates of tryFastAssociateTab: hibernated page nodes equal on url, index,
\* incognito and pinned, looked for under the window node bound to tab.windowId when
\* there is one and in the whole tree otherwise
FastMatches(T, tab, mustBeRestorable) ==
    LET existingWindow == getNodeByChromeId(T, tab.windowId)
        inArray == IF existingWindow # NoId THEN T.c[existingWindow] ELSE T.c[Root]
    IN Filter(T, inArray, LAMBDA e :
            /\ T.n[e].kind = "page"
            /\ T.n[e].hibernated
            /\ (~mustBeRestorable \/ T.n[e].restorable)
            /\ tab.url = T.n[e].url
            /\ tab.index = T.n[e].index
            /\ tab.incognito = T.n[e].incognito
            /\ tab.pinned = T.n[e].pinned)

\* the node tryFastAssociateTab binds (NoId: none)
FastMatchOf(T, tab, mustBeRestorable) ==
    LET matches == FastMatches(T, tab, mustBeRestorable) IN
    IF Len(matches) = 1 \/ (Len(matches) > 0 /\ ~isScriptableUrl(tab.url))
    THEN matches[1] ELSE NoId

tryFastAssociateTab(T, tab, tid, mustBeRestorable) ==
    LET match == FastMatchOf(T, tab, mustBeRestorable) IN
    IF match # NoId THEN restoreAssociatedPage(T, tab, tid, match) ELSE T


(***************************************************************************)
(* Disambiguator.  A disambiguation state D carries the tree and what the  *)
(* call did: rounds run, swaps made, the nodes logged as 'Disambiguation   *)
(* missed' (in the last round: missed), the nodes exchanged in the last    *)
(* round and the tree as the last round began.                             *)
(***************************************************************************)
FuzzyKey(T, e) ==
    <<T.n[e].url, T.n[e].referrer, T.n[e].historylength, T.n[e].pinned, T.n[e].incognito>>

\* a bound page node whose recorded window id differs from its top parent's bound id
Mismatched(T, e) ==
    isTab(T, e) /\ T.n[e].windowId # T.n[topParent(T, e)].chromeId

\* a grouping that keeps the nodes that are under their window
DisambiguationGroupOfAll(T, key) ==
    Filter(T, T.c[Root], LAMBDA e : isTab(T, e) /\ FuzzyKey(T, e) = key)

\* tree.groupBy of lines 1650-1664, one group: the mismatched nodes with this key
DisambiguationGroup(T, key) ==
    Filter(T, T.c[Root], LAMBDA e : Mismatched(T, e) /\ FuzzyKey(T, e) = key)

DisambiguationKeys(T) == {FuzzyKey(T, e) : e \in {m \in DOMAIN T.n : Mismatched(T, m)}}

\* the preferences without the third one
SwapCandidatesOfThree(T, items, item) ==
    LET tpc == T.n[topParent(T, item)].chromeId
        tier1 == SelectSeq(items, LAMBDA e : e # item /\ T.n[e].windowId = tpc
                     /\ T.n[item].windowId = T.n[topParent(T, e)].chromeId
                     /\ T.n[e].index = T.n[item].index)
        tier2 == SelectSeq(items, LAMBDA e : e # item /\ T.n[e].windowId = tpc
                     /\ T.n[item].windowId = T.n[topParent(T, e)].chromeId)
        tier4 == SelectSeq(items, LAMBDA e : e # item /\ T.n[e].windowId = tpc)
    IN IF tier1 # <<>> THEN tier1
       ELSE IF tier2 # <<>> THEN tier2
       ELSE tier4

\* the preferences followed by a fifth one: any other member of the group
SwapCandidatesOrAny(T, items, item) ==
    LET tpc == T.n[topParent(T, item)].chromeId
        tier1 == SelectSeq(items, LAMBDA e : e # item /\ T.n[e].windowId = tpc
                     /\ T.n[item].windowId = T.n[topParent(T, e)].chromeId
                     /\ T.n[e].index = T.n[item].index)
        tier2 == SelectSeq(items, LAMBDA e : e # item /\ T.n[e].windowId = tpc
                     /\ T.n[item].windowId = T.n[topParent(T, e)].chromeId)
        tier3 == SelectSeq(items, LAMBDA e : e # item
                     /\ T.n[item].windowId = T.n[topParent(T, e)].chromeId)
        tier4 == SelectSeq(items, LAMBDA e : e # item /\ T.n[e].windowId = tpc)
        tier5 == SelectSeq(items, LAMBDA e : e # item)
    IN IF tier1 # <<>> THEN tier1
       ELSE IF tier2 # <<>> THEN tier2
       ELSE IF tier3 # <<>> THEN tier3
       ELSE IF tier4 # <<>> THEN tier4
       ELSE tier5

\* the swap partner of item among items, by the four preferences of lines 1686-1694
SwapCandidates(T, items, item) ==
    LET tpc == T.n[topParent(T, item)].chromeId
        tier1 == SelectSeq(items, LAMBDA e : e # item /\ T.n[e].windowId = tpc
                     /\ T.n[item].windowId = T.n[topParent(T, e)].chromeId
                     /\ T.n[e].index = T.n[item].index)
        tier2 == SelectSeq(items, LAMBDA e : e # item /\ T.n[e].windowId = tpc
                     /\ T.n[item].windowId = T.n[topParent(T, e)].chromeId)
        tier3 == SelectSeq(items, LAMBDA e : e # item
                     /\ T.n[item].windowId = T.n[topParent(T, e)].chromeId)
        tier4 == SelectSeq(items, LAMBDA e : e # item /\ T.n[e].windowId = tpc)
    IN IF tier1 # <<>> THEN tier1
       ELSE IF tier2 # <<>> THEN tier2
       ELSE IF tier3 # <<>> THEN tier3
       ELSE tier4

\* an exchange that leaves each node its position
SwapWithoutIndex(T, a, b) ==
    [T EXCEPT !.n[a].chromeId = T.n[b].chromeId, !.n[b].chromeId = T.n[a].chromeId,
              !.n[a].windowId = T.n[b].windowId, !.n[b].windowId = T.n[a].windowId]

\* lines 1706-1716: the pair exchanges chromeId, windowId and index
SwapForDisambiguation(T, a, b) ==
    [T EXCEPT !.n[a].chromeId = T.n[b].chromeId, !.n[b].chromeId = T.n[a].chromeId,
              !.n[a].windowId = T.n[b].windowId, !.n[b].windowId = T.n[a].windowId,
              !.n[a].index = T.n[b].index, !.n[b].index = T.n[a].index]

\* one pass of the loop body of lines 1671-1723 for items[(i + iterations) % length]
DisambiguateItem(D, items, i, iterations) ==
    LET T == D.tree
        item == items[((i + iterations) % Len(items)) + 1]
    IN IF T.n[item].windowId = T.n[topParent(T, item)].chromeId THEN D
       ELSE LET swapWith == SwapCandidates(T, items, item) IN
            IF swapWith = <<>>
            THEN [D EXCEPT !.swapCount = @ + 1, !.missed = @ \cup {item},
                           !.logged = @ \cup {item}]
            ELSE [D EXCEPT !.swapCount = @ + 1, !.swaps = @ + 1,
                           !.swapped = @ \cup {item, swapWith[1]},
                           !.tree = SwapForDisambiguation(T, item, swapWith[1])]

RECURSIVE DisambiguateItems(_, _, _, _)
DisambiguateItems(D, items, i, iterations) ==
    IF i >= Len(items) THEN D
    ELSE DisambiguateItems(DisambiguateItem(D, items, i, iterations), items, i + 1, iterations)

RECURSIVE DisambiguateGroups(_, _, _, _)
\* the groups are taken from T0, the tree as the round began
DisambiguateGroups(D, T0, keys, iterations) ==
    IF keys = {} THEN D
    ELSE LET key == CHOOSE k \in keys : TRUE
             items == DisambiguationGroup(T0, key)
             D1 == IF Len(items) < 2 THEN D ELSE DisambiguateItems(D, items, 0, iterations)
         IN DisambiguateGroups(D1, T0, keys \ {key}, iterations)

\* a round that always asks for another one
DisambiguateAgainAlways(swapCount, iterations) == TRUE

\* whether a round is followed by another one (line 1725)
DisambiguateAgain(swapCount, iterations) == swapCount > 0 /\ iterations > 1

RECURSIVE DisambiguateRounds(_, _)
DisambiguateRounds(D, iterations) ==
    LET D0 == [D EXCEPT !.swapCount = 0, !.missed = {}, !.swapped = {}, !.rounds = @ + 1,
                        !.before = D.tree]
        D1 == DisambiguateGroups(D0, D.tree, DisambiguationKeys(D.tree), iterations)
    IN IF DisambiguateAgain(D1.swapCount, iterations) /\ D1.rounds < RoundFuel
       THEN DisambiguateRounds(D1, iterations - 1)
       ELSE D1

\* disambiguatePageNodesByWindowId(iterations); iterations = {} takes the default
disambiguatePageNodesByWindowId(T, iterations) ==
    DisambiguateRounds([tree |-> T, swapCount |-> 0, swaps |-> 0, rounds |-> 0,
                        missed |-> {}, swapped |-> {}, logged |-> {}, before |-> T],
                       IF iterations = {} THEN DEFAULT_DISAMBIGUATION_ITERATIONS
                       ELSE CHOOSE k \in iterations : TRUE)


(***************************************************************************)
(* Index swaps (swapPageNodesByIndex)                                      *)
(***************************************************************************)
IndexKey(T, e) == <<topParent(T, e)>> \o FuzzyKey(T, e)

IndexGroup(T, key) == Filter(T, T.c[Root], LAMBDA e : isTab(T, e) /\ IndexKey(T, e) = key)

\* an index swap that copies the partner's entity id instead of exchanging
SwapForIndexCopying(T, a, b) ==
    [T EXCEPT !.n[a].index = T.n[b].index, !.n[b].index = T.n[a].index,
              !.n[a].chromeId = T.n[b].chromeId]

\* lines 1762-1768: the pair exchanges index and chromeId
SwapForIndex(T, a, b) ==
    [T EXCEPT !.n[a].index = T.n[b].index, !.n[b].index = T.n[a].index,
              !.n[a].chromeId = T.n[b].chromeId, !.n[b].chromeId = T.n[a].chromeId]

RECURSIVE SwapIndexItems(_, _, _)
\* S is [tree, swaps]
SwapIndexItems(S, items, i) ==
    IF i > Len(items) THEN S
    ELSE LET T == S.tree
             item == items[i]
             swapWith == SelectSeq(items, LAMBDA e : getTabIndex(T, e) = T.n[item].index)
         IN IF T.n[item].index = getTabIndex(T, item) \/ swapWith = <<>>
            THEN SwapIndexItems(S, items, i + 1)
            ELSE SwapIndexItems([tree |-> SwapForIndex(T, item, swapWith[1]), swaps |-> S.swaps + 1],
                                items, i + 1)

RECURSIVE SwapIndexGroups(_, _, _)
SwapIndexGroups(S, T0, keys) ==
    IF keys = {} THEN S
    ELSE LET key == CHOOSE k \in keys : TRUE
             items == IndexGroup(T0, key)
             S1 == IF Len(items) < 2 THEN S ELSE SwapIndexItems(S, items, 1)
         IN SwapIndexGroups(S1, T0, keys \ {key})

swapPageNodesByIndex(T) ==
    SwapIndexGroups([tree |-> T, swaps |-> 0], T,
                    {IndexKey(T, e) : e \in {m \in DOMAIN T.n : isTab(T, m)}})

(***************************************************************************)
(* WindowMerger (mergeWindowsPreservingTabIndexes)                         *)
(***************************************************************************)
FirstElem(s, Pred(_)) == FirstOf(SelectSeq(s, Pred))

RECURSIVE MergeIncoming(_, _, _, _, _, _)
\* i runs from Len(incoming) down to 1; insertPosition is NoId while unset
MergeIncoming(T, incoming, existing, toWindow, i, insertPosition) ==
    IF i < 1 THEN T
    ELSE LET node == incoming[i]
             following == FirstElem(existing, LAMBDA e : isTab(T, e) /\ T.n[e].index = T.n[node].index + 1)
             preceding == FirstElem(existing, LAMBDA e : isTab(T, e) /\ T.n[e].index = T.n[node].index - 1)
         IN IF ~isTab(T, node) \/ T.n[node].index = 0
            THEN IF insertPosition # NoId
                 THEN MergeIncoming(moveNodeRel(T, node, "after", insertPosition),
                                    incoming, existing, toWindow, i - 1, node)
                 ELSE MergeIncoming(moveNodeRel(T, node, "prepend", toWindow),
                                    incoming, existing, toWindow, i - 1, node)
            ELSE IF following # NoId
            THEN MergeIncoming(moveNodeRel(T, node, "before", following),
                               incoming, existing, toWindow, i - 1, node)
            ELSE IF preceding # NoId
            THEN IF Len(T.c[preceding]) > 0
                 THEN MergeIncoming(moveNodeRel(T, node, "prepend", preceding),
                                    incoming, existing, toWindow, i - 1, insertPosition)
                 ELSE MergeIncoming(moveNodeRel(T, node, "after", preceding),
                                    incoming, existing, toWindow, i - 1, node)
            ELSE MergeIncoming(moveNodeRel(T, node, "append", toWindow),
                               incoming, existing, toWindow, i - 1, insertPosition)

mergeWindowsPreservingTabIndexes(T, fromWindow, toWindow) ==
    LET incoming == Flat(T, T.c[fromWindow])
        existing == Flat(T, T.c[toWindow])
    IN MergeIncoming(T, incoming, existing, toWindow, Len(incoming), NoId)


(***************************************************************************)
(* Container association (associateWindowstoWindowNodes)                   *)
(***************************************************************************)
RECURSIVE SortedSeq(_)
\* a finite set of integers as an ascending sequence
SortedSeq(S) ==
    IF S = {} THEN <<>>
    ELSE LET m == CHOOSE x \in S : \A y \in S : x <= y IN <<m>> \o SortedSeq(S \ {m})

RECURSIVE Digits(_)
Digits(k) == IF k < 10 THEN <<k>> ELSE Digits(k \div 10) \o <<k % 10>>

RECURSIVE StripZeros(_)
StripZeros(d) == IF d # <<>> /\ d[Len(d)] = 0 THEN StripZeros(SubSeq(d, 1, Len(d) - 1)) ELSE d

\* count.toString() of a score 1.0 * n + 0.00001 * m, as a sequence of characters:
\* the digits, and -1 for the decimal point (which sorts before every digit)
ScoreString(score) ==
    LET n == score[1]
        m == score[2]
        frac == Digits(100000 + m)
    IN IF m = 0 THEN Digits(n)
       ELSE Digits(n) \o <<0 - 1>> \o StripZeros(Tail(frac))

RECURSIVE StringLess(_, _)
\* the order Array.prototype.sort() puts values in: by their strings
StringLess(a, b) ==
    IF b = <<>> THEN FALSE
    ELSE IF a = <<>> THEN TRUE
    ELSE IF Head(a) # Head(b) THEN Head(a) < Head(b)
    ELSE StringLess(Tail(a), Tail(b))

\* the tabs a window node counts: bound descendants whose pinned and incognito
\* states equal the live tab's
LiveMatching(T, tabs, win) ==
    SelectSeq(Flat(T, T.c[win]), LAMBDA e :
        /\ isTab(T, e)
        /\ T.n[e].chromeId \in DOMAIN tabs
        /\ T.n[e].pinned = tabs[T.n[e].chromeId].pinned
        /\ T.n[e].incognito = tabs[T.n[e].chromeId].incognito)

\* groups[windowId] of lines 1547-1560, as <<n, m>>
WindowScore(T, tabs, win, windowId) ==
    LET live == LiveMatching(T, tabs, win)
        inWin == SelectSeq(live, LAMBDA e : tabs[T.n[e].chromeId].windowId = windowId)
        same == SelectSeq(inWin, LAMBDA e : T.n[e].index = tabs[T.n[e].chromeId].index)
    IN <<Len(inWin), Len(same)>>

LiveWindowIds(tabs) == {tabs[t].windowId : t \in DOMAIN tabs}

windowTabCounts(tabs, windowId) == Cardinality({t \in DOMAIN tabs : tabs[t].windowId = windowId})

RECURSIVE PairsOfWin(_, _, _, _)
\* the [win, windowId] pairs of one window node, window ids ascending
PairsOfWin(T, tabs, win, wids) ==
    IF wids = <<>> THEN <<>>
    ELSE LET sc == WindowScore(T, tabs, win, Head(wids))
         IN (IF sc[1] > 0 THEN <<[win |-> win, windowId |-> Head(wids), score |-> sc]>> ELSE <<>>)
            \o PairsOfWin(T, tabs, win, Tail(wids))

RECURSIVE AllPairs(_, _, _, _)
\* wins are visited from the last to the first (line 1545)
AllPairs(T, tabs, wins, i) ==
    IF i < 1 THEN <<>>
    ELSE PairsOfWin(T, tabs, wins[i], SortedSeq(LiveWindowIds(tabs))) \o AllPairs(T, tabs, wins, i - 1)

\* whether the pair at position p is visited before the pair at position q:
\* count values descending in sort() order, and each count's pairs from the last pushed
VisitedBefore(pairs, p, q) ==
    LET sp == ScoreString(pairs[p].score)
        sq == ScoreString(pairs[q].score)
    IN StringLess(sq, sp) \/ (sp = sq /\ p > q)

RECURSIVE VisitOrder(_, _)
VisitOrder(pairs, left) ==
    IF left = {} THEN <<>>
    ELSE LET p == CHOOSE x \in left : \A y \in left \ {x} : VisitedBefore(pairs, x, y)
         IN <<pairs[p]>> \o VisitOrder(pairs, left \ {p})

\* a prohibited merge that marks the window id and the node as used
AssociatePairConsuming(A, pair, prohibitMergingWindows) ==
    LET T == A.tree
        win == pair.win
        existingWinNode == getNodeByChromeId(T, pair.windowId)
    IN IF existingWinNode # NoId /\ prohibitMergingWindows
       THEN [A EXCEPT !.usedWindowIds = @ \cup {pair.windowId}, !.usedWindowNodes = @ \cup {win}]
       ELSE LET T1 == IF existingWinNode # NoId
                      THEN mergeNodes(mergeWindowsPreservingTabIndexes(T, existingWinNode, win),
                                      existingWinNode, win)
                      ELSE T
                T2 == expandNode([T1 EXCEPT !.n[win].restorable = FALSE,
                                            !.n[win].hibernated = FALSE,
                                            !.n[win].chromeId = pair.windowId], win)
            IN [tree |-> T2,
                usedWindowIds |-> A.usedWindowIds \cup {pair.windowId},
                usedWindowNodes |-> A.usedWindowNodes \cup {win},
                merges |-> A.merges + (IF existingWinNode # NoId THEN 1 ELSE 0)]

\* lines 1602-1630 for one pair that passed the checks of lines 1590-1600
AssociatePair(A, pair, prohibitMergingWindows) ==
    LET T == A.tree
        win == pair.win
        existingWinNode == getNodeByChromeId(T, pair.windowId)
    IN IF existingWinNode # NoId /\ prohibitMergingWindows THEN A
       ELSE LET T1 == IF existingWinNode # NoId
                      THEN mergeNodes(mergeWindowsPreservingTabIndexes(T, existingWinNode, win),
                                      existingWinNode, win)
                      ELSE T
                T2 == expandNode([T1 EXCEPT !.n[win].restorable = FALSE,
                                            !.n[win].hibernated = FALSE,
                                            !.n[win].chromeId = pair.windowId], win)
            IN [tree |-> T2,
                usedWindowIds |-> A.usedWindowIds \cup {pair.windowId},
                usedWindowNodes |-> A.usedWindowNodes \cup {win},
                merges |-> A.merges + (IF existingWinNode # NoId THEN 1 ELSE 0)]

RECURSIVE AssociatePairsUnguarded(_, _, _, _, _, _)
\* a pass without the test of line 1587
AssociatePairsUnguarded(A, T0, tabs, order, requireChildrenCountMatch, prohibitMergingWindows) ==
    IF order = <<>> THEN A
    ELSE LET pair == Head(order)
             skip == \/ pair.win \notin DOMAIN A.tree.n
                     \/ (requireChildrenCountMatch
                         /\ Len(LiveMatching(T0, tabs, pair.win)) # windowTabCounts(tabs, pair.windowId))
         IN AssociatePairsUnguarded(IF skip THEN A
                                    ELSE AssociatePair(A, pair, prohibitMergingWindows),
                                    T0, tabs, Tail(order), requireChildrenCountMatch,
                                    prohibitMergingWindows)

RECURSIVE AssociatePairs(_, _, _, _, _, _)
\* counts are those taken before the first pair was visited (T0)
AssociatePairs(A, T0, tabs, order, requireChildrenCountMatch, prohibitMergingWindows) ==
    IF order = <<>> THEN A
    ELSE LET pair == Head(order)
             skip == \/ pair.windowId \in A.usedWindowIds
                     \/ pair.win \in A.usedWindowNodes
                     \/ pair.win \notin DOMAIN A.tree.n
                     \/ (requireChildrenCountMatch
                         /\ Len(LiveMatching(T0, tabs, pair.win)) # windowTabCounts(tabs, pair.windowId))
         IN AssociatePairs(IF skip THEN A ELSE AssociatePair(A, pair, prohibitMergingWindows),
                           T0, tabs, Tail(order), requireChildrenCountMatch, prohibitMergingWindows)

\* line 1525: the restorable window nodes, in tree order
RestorableWindows(T) ==
    Filter(T, T.c[Root], LAMBDA e : T.n[e].kind = "window" /\ T.n[e].restorable)

\* the chrome.tabs.query callback of lines 1536-1634, for the window nodes found
\* restorable when the query was made
associateWindowstoWindowNodes(T, tabs, wins0, requireChildrenCountMatch, prohibitMergingWindows) ==
    LET wins == SelectSeq(wins0, LAMBDA w : w \in DOMAIN T.n)
        pairs == AllPairs(T, tabs, wins, Len(wins))
        order == VisitOrder(pairs, 1..Len(pairs))
    IN AssociatePairs([tree |-> T, usedWindowIds |-> {}, usedWindowNodes |-> {}, merges |-> 0],
                      T, tabs, order, requireChildrenCountMatch, prohibitMergingWindows)


(***************************************************************************)
(* Placement and structure repair                                          *)
(***************************************************************************)
\* tree.rebuildPageNodeWindowIds: every bound page node takes its live tab's window id
rebuildPageNodeWindowIds(T, tabs) ==
    [T EXCEPT !.n = [m \in DOMAIN T.n |->
        IF isTab(T, m) /\ T.n[m].chromeId \in DOMAIN tabs
        THEN [T.n[m] EXCEPT !.windowId = tabs[T.n[m].chromeId].windowId]
        ELSE T.n[m]]]

\* lines 1777-1825 for one tab
MovePageOfTab(M, tabs, tid) ==
    LET T == M.tree
        tab == tabs[tid]
        page == getNodeByChromeId(T, tid)
        tp == topParent(T, page)
        nextByIndex == FirstOf(Filter(T, T.c[Root], LAMBDA e :
                           isTab(T, e) /\ T.n[e].windowId = tab.windowId
                           /\ T.n[topParent(T, e)].chromeId = tab.windowId
                           /\ T.n[e].index = tab.index + 1))
        prevByIndex == FirstOf(Filter(T, T.c[Root], LAMBDA e :
                           isTab(T, e) /\ T.n[e].windowId = tab.windowId
                           /\ T.n[topParent(T, e)].chromeId = tab.windowId
                           /\ T.n[e].index = tab.index - 1))
    IN IF isSidebarUrl(tab.url) \/ page = NoId THEN M
       ELSE IF ~isWindow(T, tp) \/ T.n[tp].hibernated THEN M
       ELSE IF T.n[tp].chromeId = tab.windowId THEN M
       ELSE IF nextByIndex # NoId
            THEN [tree |-> moveNodeRel(T, page, "before", nextByIndex), moves |-> M.moves + 1]
       ELSE IF prevByIndex # NoId
            THEN [tree |-> moveNodeRel(T, page, "after", prevByIndex), moves |-> M.moves + 1]
       ELSE [tree |-> addTabToWindow(T, tab, tid, page), moves |-> M.moves + 1]

RECURSIVE MovePages(_, _, _)
MovePages(M, tabs, tids) ==
    IF tids = <<>> THEN M
    ELSE MovePages(MovePageOfTab(M, tabs, Head(tids)), tabs, Tail(tids))

\* the chrome.tabs.query callback of movePageNodesToCorrectWindows: [tree, moves]
movePageNodesToCorrectWindows(T, tabs) ==
    MovePages([tree |-> T, moves |-> 0], tabs, SortedSeq(DOMAIN tabs))

\* a test that lets popup windows through
IsAnyWindow(T, e) == T.n[e].kind = "window"

IsNormalWindow(T, e) == T.n[e].kind = "window" /\ T.n[e].type # "popup"

\* baddy.preceding(pred) / baddy.following(pred): the nearest node in tree order
Preceding(T, n, Pred(_)) ==
    LET all == AllNodes(T)
        before == SelectSeq(SubSeq(all, 1, IndexOf(all, n) - 1), Pred)
    IN IF before = <<>> THEN NoId ELSE before[Len(before)]

Following(T, n, Pred(_)) ==
    LET all == AllNodes(T)
    IN FirstOf(SelectSeq(SubSeq(all, IndexOf(all, n) + 1, Len(all)), Pred))

\* lines 1836-1847 for one stray top-level node
FixBadPage(T, baddy) ==
    LET prec == Preceding(T, baddy, LAMBDA e : IsNormalWindow(T, e))
        foll == Following(T, baddy, LAMBDA e : IsNormalWindow(T, e))
        found == IF prec # NoId THEN prec ELSE foll
        T1 == IF found = NoId
              THEN addNode(T, WindowNode(T.n[baddy].windowId, T.n[baddy].incognito), Root)
              ELSE T
        winNode == IF found = NoId THEN T.next ELSE found
    IN moveNodeRel(T1, baddy, "append", winNode)

RECURSIVE FixBadPages(_, _, _)
FixBadPages(T, baddies, i) ==
    IF i < 1 THEN T ELSE FixBadPages(FixBadPage(T, baddies[i]), baddies, i - 1)

RECURSIVE FixBadWindows(_, _, _)
FixBadWindows(T, baddies, i) ==
    IF i < 1 THEN T ELSE FixBadWindows(moveNodeRel(T, baddies[i], "append", Root), baddies, i - 1)

\* the window nodes that are not children of the root (line 1851)
NestedWindows(T) ==
    Filter(T, T.c[Root], LAMBDA e : T.n[e].kind = "window" /\ ParentOf(T, e) # Root)

\* fixBadNodes(): [tree, movedWindow]; movedWindow starts movePageNodesToCorrectWindows()
fixBadNodes(T) ==
    LET pages == SelectSeq(T.c[Root], LAMBDA e : T.n[e].kind # "window")
        T1 == FixBadPages(T, pages, Len(pages))
        wins == NestedWindows(T1)
    IN [tree |-> FixBadWindows(T1, wins, Len(wins)), movedWindow |-> wins # <<>>]

RECURSIVE RemoveAll(_, _, _)
RemoveAll(T, baddies, i) ==
    IF i < 1 THEN T ELSE RemoveAll(removeNode(T, baddies[i]), baddies, i - 1)

removeZeroChildWindowNodes(T) ==
    LET baddies == Filter(T, T.c[Root], LAMBDA e : T.n[e].kind = "window" /\ Len(T.c[e]) = 0)
    IN RemoveAll(T, baddies, Len(baddies))


(***************************************************************************)
(* State                                                                   *)
(***************************************************************************)
VARIABLES
    tabs,                            \* the live tabs: tab id -> tab (owned by the host)
    tree,                            \* the page tree
    associationRuns,                 \* run id -> [total, count, tabIds]
    associationStubbornTabIds,       \* tab id -> consecutive tick count
    associationConcurrentRuns,
    associationGetDetailsRetryList,  \* tab id -> retries made
    nextRunId,                       \* generateGuid(): run ids are never reused
    runTimers,                       \* TimeoutManager labels armed for associatePagesCheck
    rectTimer,                       \* TimeoutManager label 'rectifyAssociations' armed
    startQueries,                    \* chrome.tabs.query calls of startAssociationRun in flight
    newTabQueries,                   \* chrome.tabs.query({windowId}) calls of tryAssociateTab in flight
    details,                         \* 'associate' detail requests a tab will answer
    tabsGets,                        \* chrome.tabs.get calls of associatePagesCheck in flight
    rect,                            \* the rectifyAssociations pipelines in progress
    movers,                          \* movePageNodesToCorrectWindows calls of fixBadNodes in flight
    existing,                        \* 'associate_existing' requests: tab id -> "retry" | "asked"
    asked,                           \* tabs an 'associate' detail query was issued for
    ticks,                           \* tab id -> ticks at which the tab was pending
    escalatedAt,                     \* tab id -> the values of ticks at which fallback was requested
    extStarts,                       \* calls of startAssociationRun made from outside
    rectStarted,                     \* pipelines started
    lastEvent,                       \* what the last callback did
    out                              \* the last call of a function applied on its own

vars == <<tabs, tree, associationRuns, associationStubbornTabIds, associationConcurrentRuns,
          associationGetDetailsRetryList, nextRunId, runTimers, rectTimer, startQueries,
          newTabQueries, details, tabsGets, rect, movers, existing, asked, ticks,
          escalatedAt, extStarts, rectStarted, lastEvent, out>>

\* the part of the state the association functions read and write, as one value
Engine ==
    [tree |-> tree, runs |-> associationRuns, stub |-> associationStubbornTabIds,
     conc |-> associationConcurrentRuns, nextRunId |-> nextRunId,
     runTimers |-> runTimers, rectTimer |-> rectTimer, startQueries |-> startQueries,
     newTabQueries |-> newTabQueries, details |-> details, tabsGets |-> tabsGets,
     movers |-> movers, asked |-> asked, ticks |-> ticks, escalatedAt |-> escalatedAt]

SetEngine(E) ==
    /\ tree' = E.tree
    /\ associationRuns' = E.runs
    /\ associationStubbornTabIds' = E.stub
    /\ associationConcurrentRuns' = E.conc
    /\ nextRunId' = E.nextRunId
    /\ runTimers' = E.runTimers
    /\ rectTimer' = E.rectTimer
    /\ startQueries' = E.startQueries
    /\ newTabQueries' = E.newTabQueries
    /\ details' = E.details
    /\ tabsGets' = E.tabsGets
    /\ movers' = E.movers
    /\ asked' = E.asked
    /\ ticks' = E.ticks
    /\ escalatedAt' = E.escalatedAt

Bound(T, tid) == getNodeByChromeId(T, tid) # NoId

(***************************************************************************)
(* Association run coordinator                                             *)
(***************************************************************************)
\* a call that arms no timer
rectifyAssociationsUnarmed(E) == E

\* rectifyAssociations(delay): TimeoutManager.reset arms the one timer of that label
rectifyAssociations(E) == [E EXCEPT !.rectTimer = TRUE]

\* A run id is never reused, so every request in flight that names an ended run
\* behaves alike: such requests are kept under EndedRun.
EndedRun == 0
Stale(reqs, runId) == {IF q[2] = runId THEN <<q[1], EndedRun>> ELSE q : q \in reqs}

\* the message of the exception that endAssociationRun lets pass (line 1029)
NoTimeout == "A timeout with the given label does not exist"
NotThrown == "none"

\* TimeoutManager.clear(label): the timer of that label is removed; there being none is
\* reported by an exception
TimeoutManagerClear(timers, label) ==
    IF label \in timers THEN [timers |-> timers \ {label}, thrown |-> NotThrown]
    ELSE [timers |-> timers, thrown |-> NoTimeout]

\* a catch that lets every exception through
SwallowedNever(message) == FALSE

\* the catch of lines 1028-1032
Swallowed(message) == message = NoTimeout

\* endAssociationRun(runId) with the exception it ends with, if any
endAssociationRunCall(E, runId) ==
    LET E1 == [E EXCEPT !.runs = [r \in DOMAIN E.runs \ {runId} |-> E.runs[r]],
                        !.conc = E.conc - 1,
                        !.details = Stale(@, runId), !.newTabQueries = Stale(@, runId)]
        E2 == rectifyAssociations(E1)
        cleared == TimeoutManagerClear(E2.runTimers, runId)
    IN [e |-> [E2 EXCEPT !.runTimers = cleared.timers],
        thrown |-> IF Swallowed(cleared.thrown) THEN NotThrown ELSE cleared.thrown]

endAssociationRun(E, runId) == endAssociationRunCall(E, runId).e

\* lines 1292-1304: the run, when still in progress, has its timer reset and its count
\* raised (the splice of line 1297 removes no element)
NoteAssociated(E, runId) ==
    IF runId \in DOMAIN E.runs
    THEN [E EXCEPT !.runTimers = @ \cup {runId}, !.runs[runId].count = @ + 1]
    ELSE E

AssociationParams(tab, referrer, historylength) ==
    [NoParams EXCEPT !.mustBeHibernated = TRUE, !.mustBeRestorable = TRUE,
                     !.topParentMustBeRealOrRestorableWindow = TRUE,
                     !.url = tab.url, !.referrer = referrer, !.historylength = historylength,
                     !.pinned = {tab.pinned}, !.incognito = {tab.incognito}]

\* lines 1325-1336: a new node for the tab, with the referrer and history length received
AddNewPage(T, tab, tid, referrer, historylength) ==
    LET T1 == addTabToWindow(T, tab, tid, NoId)
        page == T1.next - 1
    IN [T1 EXCEPT !.n[page].referrer = IF referrer = {} THEN "" ELSE CHOOSE r \in referrer : TRUE,
                  !.n[page].historylength = IF historylength = {} THEN 1
                                            ELSE CHOOSE h \in historylength : TRUE]

\* an arrival that always makes a new node for a tab that has none
AssociateAlwaysFresh(T, tab, tid, referrer, historylength) ==
    IF getNodeByChromeId(T, tid) # NoId THEN T
    ELSE AddNewPage(T, tab, tid, referrer, historylength)

\* an arrival that looks for a node to restore without asking whether the tab has one
AssociateUnchecked(T, tab, tid, referrer, historylength) ==
    LET match == findPageNodeForAssociation(T, AssociationParams(tab, referrer, historylength))
    IN IF match = NoId THEN AddNewPage(T, tab, tid, referrer, historylength)
       ELSE restoreAssociatedPage(T, tab, tid, match)

\* lines 1306-1340, on the tree
AssociateInTree(T, tab, tid, referrer, historylength) ==
    IF getNodeByChromeId(T, tid) # NoId THEN T
    ELSE LET match == findPageNodeForAssociation(T, AssociationParams(tab, referrer, historylength))
         IN IF match = NoId THEN AddNewPage(T, tab, tid, referrer, historylength)
            ELSE restoreAssociatedPage(T, tab, tid, match)

\* associateTabToPageNode(runId, tab, referrer, historylength)
associateTabToPageNode(E, tabsNow, runId, tid, referrer, historylength) ==
    LET E1 == NoteAssociated(E, runId)
    IN [E1 EXCEPT !.tree = AssociateInTree(E.tree, tabsNow[tid], tid, referrer, historylength)]

\* getPageDetails(tab.id, {action: 'associate', runId}): whether the request was
\* dispatched, and whether the tab will answer it
PortExists(tab) == tab.port # "none"
WillAnswer(tab) == tab.port = "ok"

\* a request that records the tab as pending only when its port exists
AskForDetailsWhenPort(E, tab, runId, tid) ==
    IF ~PortExists(tab) THEN [E EXCEPT !.asked = @ \cup {tid}]
    ELSE [E EXCEPT !.runs = [r \in DOMAIN E.runs |->
                               IF r = runId THEN [E.runs[r] EXCEPT !.tabIds = Append(@, tid)]
                               ELSE E.runs[r]],
                   !.asked = @ \cup {tid},
                   !.details = IF WillAnswer(tab) THEN @ \cup {<<tid, runId>>} ELSE @]

\* lines 1080-1088: the tab is recorded as pending and asked for its details
AskForDetails(E, tab, runId, tid) ==
    [E EXCEPT !.runs = [r \in DOMAIN E.runs |->
                          IF r = runId THEN [E.runs[r] EXCEPT !.tabIds = Append(@, tid)] ELSE E.runs[r]],
              !.asked = @ \cup {tid},
              !.details = IF PortExists(tab) /\ WillAnswer(tab) THEN @ \cup {<<tid, runId>>} ELSE @]

\* asking every tab that was not fast-matched, scriptable or not
TryBlindNever(tab) == FALSE

\* line 1072: a tab that cannot answer is associated without details
TryBlind(tab) == ~isScriptableUrl(tab.url)

\* tryAssociateTab(runInfo, tab, forceNewTabAssociation): [e, ok]
tryAssociateTab(E, tabsNow, runId, tid, forceNewTabAssociation) ==
    LET tab == tabsNow[tid]
        match == FastMatchOf(E.tree, tab, TRUE)
    IN IF tab.incognito THEN [e |-> E, ok |-> FALSE]
       ELSE IF ~forceNewTabAssociation /\ isNewTabUrl(tab.url) /\ tab.index = 0 /\ ~tab.pinned
       THEN [e |-> [E EXCEPT !.newTabQueries = @ \cup {<<tid, runId>>}], ok |-> FALSE]
       ELSE IF match # NoId
       THEN [e |-> [E EXCEPT !.tree = tryFastAssociateTab(E.tree, tab, tid, TRUE)], ok |-> TRUE]
       ELSE IF isNewTabUrl(tab.url)
       THEN [e |-> [E EXCEPT !.tree = addTabToWindow(E.tree, tab, tid, NoId)], ok |-> TRUE]
       ELSE IF TryBlind(tab)
       THEN [e |-> associateTabToPageNode(E, tabsNow, runId, tid, {}, {}), ok |-> TRUE]
       ELSE [e |-> AskForDetails(E, tab, runId, tid), ok |-> FALSE]

RECURSIVE EnumerateTabs(_, _, _, _)
\* the loop of lines 984-999
EnumerateTabs(E, tabsNow, runId, tids) ==
    IF tids = <<>> THEN E
    ELSE LET tid == Head(tids)
             r == tryAssociateTab(E, tabsNow, runId, tid, FALSE)
             E1 == IF isSidebarUrl(tabsNow[tid].url) \/ getNodeByChromeId(E.tree, tid) # NoId THEN E
                   ELSE IF r.ok THEN r.e
                   ELSE [r.e EXCEPT !.runs[runId].total = @ + 1]
         IN EnumerateTabs(E1, tabsNow, runId, Tail(tids))

\* a guard that lets every start through
RunAllowedAlways(conc) == TRUE

\* the guard of lines 967 and 974
RunAllowed(conc) == ~(conc > 0)

\* startAssociationRun(), up to its chrome.tabs.query call
startAssociationRun(E) ==
    IF ~RunAllowed(E.conc) THEN E
    ELSE LET f == fixBadNodes(E.tree)
         IN [E EXCEPT !.tree = f.tree,
                      !.movers = IF f.movedWindow THEN @ \cup {[pc |-> "rebuild", origin |-> 0]} ELSE @,
                      !.startQueries = @ + 1]

\* the chrome.tabs.query callback of startAssociationRun (lines 973-1008)
StartQueryCallback(E, tabsNow) ==
    IF ~RunAllowed(E.conc) THEN E
    ELSE LET runId == E.nextRunId
             E1 == [E EXCEPT !.runs = [r \in DOMAIN E.runs \cup {runId} |->
                                         IF r = runId THEN [total |-> 0, count |-> 0, tabIds |-> <<>>]
                                         ELSE E.runs[r]],
                             !.conc = @ + 1,
                             !.nextRunId = @ + 1]
             E2 == EnumerateTabs(E1, tabsNow, runId, SortedSeq(DOMAIN tabsNow))
         IN IF E2.runs[runId].total = 0 THEN endAssociationRun(E2, runId)
            ELSE [E2 EXCEPT !.runTimers = @ \cup {runId}]

\* a threshold test that passes one tick early
IsStubbornEarly(count) == count >= ASSOCIATE_STUBBORN_TAB_FALLBACK_THRESHOLD_ITERATIONS - 1

\* the fallback threshold test of line 1268
IsStubborn(count) == count >= ASSOCIATE_STUBBORN_TAB_FALLBACK_THRESHOLD_ITERATIONS

RECURSIVE CountStubborn(_, _)
\* the loop of lines 1265-1280
CountStubborn(E, tabIds) ==
    IF tabIds = <<>> THEN E
    ELSE LET tabId == Head(tabIds)
             count == (IF tabId \in DOMAIN E.stub THEN E.stub[tabId] ELSE 0) + 1
             seen == E.ticks[tabId] + 1
             E0 == [E EXCEPT !.ticks[tabId] = seen]
             E1 == IF IsStubborn(count)
                   THEN [E0 EXCEPT !.tabsGets = @ \cup {tabId},
                                   !.escalatedAt[tabId] = @ \cup {seen}]
                   ELSE [E0 EXCEPT !.stub = [t \in DOMAIN E.stub \cup {tabId} |->
                                               IF t = tabId THEN count ELSE E.stub[t]]]
         IN CountStubborn(E1, Tail(tabIds))

\* a tick that counts and starts again without ending its run
associatePagesCheckKeepingRun(E, runId) ==
    IF runId \notin DOMAIN E.runs THEN E
    ELSE startAssociationRun(CountStubborn(E, E.runs[runId].tabIds))

\* associatePagesCheck(runId)
associatePagesCheck(E, runId) ==
    IF runId \notin DOMAIN E.runs THEN E
    ELSE startAssociationRun(endAssociationRun(CountStubborn(E, E.runs[runId].tabIds), runId))


(***************************************************************************)
(* Associating a tab that already has a node (associate_existing)          *)
(***************************************************************************)
ExistingParams(tab, referrer, historylength) ==
    [NoParams EXCEPT !.mustBeHibernated = TRUE, !.mustBeRestorable = TRUE,
                     !.url = tab.url, !.referrer = referrer, !.historylength = historylength,
                     !.pinned = {tab.pinned}, !.incognito = {tab.incognito}]

\* lines 1191-1199
RestoreExisting(T, tab, tid, existingPage, match) ==
    LET T1 == restoreAssociatedPage(mergeNodes(T, existingPage, match), tab, tid, match)
    IN [T1 EXCEPT !.n[match].referrer = tab.referrer, !.n[match].historylength = tab.historylength]

\* associateExistingToRestorablePageNode(tab, referrer, historylength), no session guid
associateExistingToRestorablePageNode(E, tabsNow, tid) ==
    LET tab == tabsNow[tid]
        existingPage == getNodeByChromeId(E.tree, tid)
        match == findPageNodeForAssociation(E.tree,
                     ExistingParams(tab, {tab.referrer}, {tab.historylength}))
    IN IF match = NoId \/ existingPage = NoId THEN E
       ELSE rectifyAssociations([E EXCEPT !.tree = RestoreExisting(E.tree, tab, tid, existingPage, match)])

(***************************************************************************)
(* Reconciler pipeline (rectifyAssociations).  A pipeline in progress is   *)
(* [pc, k, wins, swaps, merges, moves, tree0]: the callback it waits for,  *)
(* the container-association stage, the window nodes that stage found      *)
(* restorable, what it did so far and the tree it started from.            *)
(***************************************************************************)
MaxRectInstances == 2

Idle == [pc |-> "idle", k |-> 0, wins |-> <<>>, swaps |-> 0, merges |-> 0, moves |-> 0,
         tree0 |-> <<>>]

\* the arguments of the four container-association stages (lines 1212-1218)
RequireChildrenCountMatch(k) == k \in {1, 2}

\* merging prohibited in the first and third stage instead
ProhibitMergingWindowsFirst(k) == k \in {1, 3}

ProhibitMergingWindows(k) == k \in {2, 3}

RECURSIVE RunStages(_, _, _, _)
\* stage k's association is about to query the host, unless no window node is restorable
StageAssociation(T, slot, k, wins) ==
    IF wins = <<>> THEN RunStages(T, slot, k, TRUE)
    ELSE [tree |-> T, slot |-> [slot EXCEPT !.pc = "associate", !.k = k, !.wins = wins]]

\* stage k's disambiguation D is done
StageDisambiguated(D, slot, k) ==
    IF k < 4 THEN RunStages(D.tree, [slot EXCEPT !.swaps = @ + D.swaps, !.wins = <<>>], k + 1, FALSE)
    ELSE [tree |-> D.tree,
          slot |-> [slot EXCEPT !.swaps = @ + D.swaps, !.wins = <<>>, !.pc = "moveRebuild", !.k = 0]]

\* The pipeline from container-association stage k on, up to its next host call:
\* [tree, slot]; afterAssociation: stage k's association is done.
RunStages(T, slot, k, afterAssociation) ==
    IF ~afterAssociation
    THEN StageAssociation(T, slot, k, RestorableWindows(T))
    ELSE StageDisambiguated(disambiguatePageNodesByWindowId(T, {}), slot, k)

\* removeOldWindows(), with the rememberOpenPagesBetweenSessions setting on
removeOldWindows(T) ==
    LET youngWindows == SelectSeq(T.c[Root], LAMBDA e :
                            T.n[e].kind = "window" /\ T.n[e].hibernated /\ T.n[e].restorable /\ ~T.n[e].old)
        oldWindows == {e \in SeqRange(T.c[Root]) : T.n[e].kind = "window" /\ T.n[e].old}
        gone == {e \in oldWindows : T.n[e].hibernated /\ youngWindows # <<>>}
        dead == gone \cup UNION {Descendants(T, e) : e \in gone}
        keep == DOMAIN T.n \ dead
    IN [n |-> [m \in keep |-> IF m \in oldWindows THEN [T.n[m] EXCEPT !.old = FALSE] ELSE T.n[m]],
        c |-> [m \in keep \cup {Root} |-> SelectSeq(T.c[m], LAMBDA x : x \notin dead)],
        next |-> T.next]

WithMovers(r, moversNow) == [tree |-> r.tree, slot |-> r.slot, movers |-> moversNow]

\* the callback of a container-association stage: A is what the association did
AfterAssociation(A, slot) ==
    RunStages(A.tree, [slot EXCEPT !.merges = @ + A.merges], slot.k, TRUE)

\* lines 1221-1223, f being what fixBadNodes did after the M.moves moves
AfterFix(f, M, slot, i, moversNow) ==
    [tree |-> removeZeroChildWindowNodes(f.tree),
     slot |-> [slot EXCEPT !.pc = "final", !.moves = @ + M.moves],
     movers |-> IF f.movedWindow THEN moversNow \cup {[pc |-> "rebuild", origin |-> i]}
                ELSE moversNow]

AfterMove(M, slot, i, moversNow) == AfterFix(fixBadNodes(M.tree), M, slot, i, moversNow)

\* lines 1228-1231, S being what swapPageNodesByIndex did
AfterSwap(S, slot, moversNow) ==
    [tree |-> removeOldWindows(S.tree),
     slot |-> [slot EXCEPT !.pc = "done", !.swaps = @ + S.swaps],
     movers |-> moversNow]

\* the callback a pipeline in progress waits for: [tree, slot, movers]
RectStep(T, tabsNow, slot, i, moversNow) ==
    CASE slot.pc = "rebuild" ->
            WithMovers(RunStages(rebuildPageNodeWindowIds(T, tabsNow), slot, 1, FALSE), moversNow)
      [] slot.pc = "associate" ->
            WithMovers(AfterAssociation(
                           associateWindowstoWindowNodes(T, tabsNow, slot.wins,
                               RequireChildrenCountMatch(slot.k), ProhibitMergingWindows(slot.k)),
                           slot), moversNow)
      [] slot.pc = "moveRebuild" ->
            [tree |-> rebuildPageNodeWindowIds(T, tabsNow),
             slot |-> [slot EXCEPT !.pc = "moveQuery"], movers |-> moversNow]
      [] slot.pc = "moveQuery" ->
            AfterMove(movePageNodesToCorrectWindows(T, tabsNow), slot, i, moversNow)
      [] slot.pc = "final" ->
            AfterSwap(swapPageNodesByIndex(rebuildPageNodeWindowIds(T, tabsNow)), slot, moversNow)

(***************************************************************************)
(* Initial states: a persisted tree and the live tabs of a session         *)
(***************************************************************************)
Tab(windowId, index, url, referrer, pinned, incognito, port, reload) ==
    [windowId |-> windowId, index |-> index, url |-> url, title |-> url,
     referrer |-> referrer, historylength |-> 1, pinned |-> pinned, incognito |-> incognito,
     port |-> port, reload |-> reload]

\* a hibernated, restorable page node as loaded from disk
HPage(index, url, referrer, pinned) ==
    [kind |-> "page", chromeId |-> NoId, windowId |-> NoId, index |-> index,
     url |-> url, title |-> url, referrer |-> referrer, historylength |-> 1,
     pinned |-> pinned, incognito |-> FALSE,
     hibernated |-> TRUE, restorable |-> TRUE, collapsed |-> FALSE, type |-> "normal",
     old |-> FALSE]

\* a hibernated, restorable window node as loaded from disk
HWindow ==
    [kind |-> "window", chromeId |-> NoId, windowId |-> NoId, index |-> NoIndex,
     url |-> "", title |-> "", referrer |-> "", historylength |-> 1,
     pinned |-> FALSE, incognito |-> FALSE,
     hibernated |-> TRUE, restorable |-> TRUE, collapsed |-> TRUE, type |-> "normal",
     old |-> FALSE]

\* a page node bound to tab tid, with the referrer the tab reports
LPage(tab, tid) == [PageNode(tab, tid) EXCEPT !.referrer = tab.referrer]

MkTree(nodes, children) ==
    [n |-> nodes,
     c |-> [m \in DOMAIN nodes \cup {Root} |-> IF m \in DOMAIN children THEN children[m] ELSE <<>>],
     next |-> Cardinality(DOMAIN nodes) + 1]

W1 == 101
W2 == 102

ScenarioNames == {"duplicates", "inference", "nonscriptable", "stubborn", "crossed", "nested", "existing"}
\* duplicates that sit behind a tab the tree does not know
ShiftedScenario == "shifted"
StubbornScenario == "unresponsive"
\* a restorable page node that is a child of the root, next to two live window nodes
StrayScenario == "stray"

ScenarioTabs(sc) ==
    CASE sc = "duplicates" ->
            (1 :> Tab(W1, 0, "a", "r1", FALSE, FALSE, "ok", FALSE)
             @@ 2 :> Tab(W1, 1, "a", "r1", FALSE, FALSE, "ok", FALSE))
      [] sc = "shifted" ->
            (1 :> Tab(W1, 0, "settings", "", FALSE, FALSE, "none", FALSE)
             @@ 2 :> Tab(W1, 1, "a", "r1", FALSE, FALSE, "ok", FALSE)
             @@ 3 :> Tab(W1, 2, "a", "r1", FALSE, FALSE, "ok", FALSE))
      [] sc = "inference" ->
            (1 :> Tab(W1, 0, "a", "r1", FALSE, FALSE, "ok", FALSE)
             @@ 2 :> Tab(W1, 1, "b", "", FALSE, FALSE, "ok", FALSE))
      [] sc = "nonscriptable" ->
            (1 :> Tab(W1, 0, "settings", "", FALSE, FALSE, "none", FALSE)
             @@ 2 :> Tab(W1, 1, "file", "", FALSE, FALSE, "none", FALSE)
             @@ 3 :> Tab(W2, 0, "newtab", "", FALSE, FALSE, "none", FALSE)
             @@ 4 :> Tab(W2, 1, "settings", "", FALSE, TRUE, "none", FALSE)
             @@ 5 :> Tab(W1, 2, "sidebar", "", FALSE, FALSE, "none", FALSE))
      [] sc = "stubborn" ->
            (1 :> Tab(W1, 0, "a", "r1", FALSE, FALSE, "none", FALSE)
             @@ 2 :> Tab(W1, 1, "b", "", FALSE, FALSE, "ok", FALSE))
      [] sc = "unresponsive" ->
            (1 :> Tab(W1, 0, "a", "r1", FALSE, FALSE, "none", FALSE))
      [] sc = "lagging" ->
            (1 :> Tab(W1, 0, "b", "", FALSE, FALSE, "ok", FALSE))
      [] sc = "crossed" ->
            (1 :> Tab(W1, 0, "a", "r1", FALSE, FALSE, "ok", FALSE)
             @@ 2 :> Tab(W1, 1, "settings", "", FALSE, FALSE, "none", FALSE)
             @@ 3 :> Tab(W2, 0, "a", "r1", FALSE, FALSE, "ok", FALSE)
             @@ 4 :> Tab(W2, 1, "file", "", FALSE, FALSE, "none", FALSE))
      [] sc = "nested" ->
            (1 :> Tab(W1, 0, "a", "r1", FALSE, FALSE, "ok", TRUE)
             @@ 2 :> Tab(W2, 0, "b", "", FALSE, FALSE, "ok", FALSE))
      [] sc = "existing" ->
            (1 :> Tab(W1, 0, "a", "r1", FALSE, FALSE, "ok", TRUE)
             @@ 2 :> Tab(W1, 1, "b", "", FALSE, FALSE, "none", TRUE))
      [] sc = "reloaded" ->
            (1 :> Tab(W1, 0, "b", "", FALSE, FALSE, "ok", TRUE))
      [] sc = "stray" ->
            (1 :> Tab(W1, 0, "a", "r1", FALSE, FALSE, "ok", TRUE)
             @@ 2 :> Tab(W2, 0, "b", "", FALSE, FALSE, "none", FALSE))

ScenarioTree(sc) ==
    LET t == ScenarioTabs(sc) IN
    CASE sc = "duplicates" ->
            MkTree(1 :> HWindow @@ 2 :> HPage(0, "a", "r1", FALSE) @@ 3 :> HPage(1, "a", "r1", FALSE),
                   0 :> <<1>> @@ 1 :> <<2, 3>>)
      [] sc = "shifted" ->
            MkTree(1 :> HWindow @@ 2 :> HPage(0, "b", "", FALSE)
                   @@ 3 :> HPage(1, "a", "r1", FALSE) @@ 4 :> HPage(2, "a", "r1", FALSE),
                   0 :> <<1>> @@ 1 :> <<2, 3, 4>>)
      [] sc = "inference" ->
            MkTree(1 :> HWindow @@ 2 :> HPage(0, "a", "r1", FALSE)
                   @@ 3 :> WindowNode(W1, FALSE) @@ 4 :> LPage(t[2], 2),
                   0 :> <<1, 3>> @@ 1 :> <<2>> @@ 3 :> <<4>>)
      [] sc = "nonscriptable" ->
            MkTree(1 :> HWindow @@ 2 :> HPage(0, "settings", "", FALSE)
                   @@ 3 :> HPage(3, "file", "", FALSE) @@ 4 :> HPage(1, "settings", "", FALSE),
                   0 :> <<1>> @@ 1 :> <<2, 3, 4>>)
      [] sc = "stubborn" ->
            MkTree(1 :> HWindow @@ 2 :> HPage(1, "a", "r1", FALSE) @@ 3 :> HPage(0, "b", "", FALSE),
                   0 :> <<1>> @@ 1 :> <<2, 3>>)
      [] sc = "unresponsive" ->
            MkTree(1 :> HWindow @@ 2 :> HPage(1, "a", "r1", FALSE), 0 :> <<1>> @@ 1 :> <<2>>)
      [] sc = "lagging" ->
            MkTree(1 :> HWindow @@ 2 :> HPage(1, "b", "", FALSE), 0 :> <<1>> @@ 1 :> <<2>>)
      [] sc = "crossed" ->
            MkTree(1 :> HWindow @@ 2 :> HPage(0, "a", "r1", FALSE) @@ 3 :> HPage(1, "file", "", FALSE)
                   @@ 4 :> HWindow @@ 5 :> HPage(0, "a", "r1", FALSE) @@ 6 :> HPage(1, "settings", "", FALSE),
                   0 :> <<1, 4>> @@ 1 :> <<2, 3>> @@ 4 :> <<5, 6>>)
      [] sc = "nested" ->
            MkTree(1 :> WindowNode(W1, FALSE) @@ 2 :> LPage(t[1], 1)
                   @@ 3 :> WindowNode(W2, FALSE) @@ 4 :> LPage(t[2], 2)
                   @@ 5 :> HPage(0, "a", "r1", FALSE),
                   0 :> <<1, 5>> @@ 1 :> <<2, 3>> @@ 3 :> <<4>>)
      [] sc = "existing" ->
            MkTree(1 :> WindowNode(W1, FALSE) @@ 2 :> LPage(t[1], 1) @@ 3 :> LPage(t[2], 2)
                   @@ 4 :> HWindow @@ 5 :> HPage(0, "a", "r1", FALSE) @@ 6 :> HPage(1, "b", "", FALSE),
                   0 :> <<1, 4>> @@ 1 :> <<2, 3>> @@ 4 :> <<5, 6>>)
      [] sc = "reloaded" ->
            MkTree(1 :> WindowNode(W1, FALSE) @@ 2 :> LPage(t[1], 1)
                   @@ 3 :> HWindow @@ 4 :> HPage(0, "b", "", FALSE),
                   0 :> <<1, 3>> @@ 1 :> <<2>> @@ 3 :> <<4>>)
      [] sc = "stray" ->
            MkTree(1 :> WindowNode(W1, FALSE) @@ 2 :> LPage(t[1], 1)
                   @@ 3 :> WindowNode(W2, FALSE) @@ 4 :> LPage(t[2], 2)
                   @@ 5 :> HPage(0, "a", "r1", FALSE),
                   0 :> <<1, 3, 5>> @@ 1 :> <<2>> @@ 3 :> <<4>>)


(***************************************************************************)
(* Actions: one per entry point and per callback of the event loop         *)
(***************************************************************************)
Event(op, tid) == [op |-> op, tab |-> tid]

UnchangedHost == UNCHANGED <<tabs, associationGetDetailsRetryList, existing, out>>

\* startAssociationRun() called by the extension (start-up, navigation committed)
ExtStart ==
    /\ extStarts < MaxExternalStarts
    /\ SetEngine(startAssociationRun(Engine))
    /\ extStarts' = extStarts + 1
    /\ lastEvent' = Event("start", NoId)
    /\ UNCHANGED <<rect, rectStarted>>
    /\ UnchangedHost

\* the chrome.tabs.query callback of startAssociationRun
StartCallbackUpTo(maxRuns) ==
    /\ startQueries > 0
    /\ associationConcurrentRuns > 0 \/ nextRunId <= maxRuns
    /\ SetEngine(StartQueryCallback([Engine EXCEPT !.startQueries = @ - 1], tabs))
    /\ lastEvent' = Event(IF associationConcurrentRuns > 0 THEN "startRefused" ELSE "enumerate", NoId)
    /\ UNCHANGED <<rect, rectStarted, extStarts>>
    /\ UnchangedHost

StartCallback == StartCallbackUpTo(MaxRuns)

\* the chrome.tabs.query({windowId}) callback of tryAssociateTab (lines 1047-1057)
NewTabCallback ==
    \E q \in newTabQueries :
        LET tid == q[1]
            E0 == [Engine EXCEPT !.newTabQueries = @ \ {q}]
            alone == Cardinality({t \in DOMAIN tabs : tabs[t].windowId = tabs[tid].windowId}) = 1
        IN /\ SetEngine(IF alone
                        THEN [E0 EXCEPT !.tree = addTabToWindow(E0.tree, tabs[tid], tid, NoId)]
                        ELSE tryAssociateTab(E0, tabs, q[2], tid, TRUE).e)
           /\ lastEvent' = Event("newTab", tid)
           /\ UNCHANGED <<rect, rectStarted, extStarts>>
           /\ UnchangedHost

\* the answer of a tab to an 'associate' detail request
DetailReceived ==
    \E q \in details :
        LET tid == q[1]
            E0 == [Engine EXCEPT !.details = @ \ {q}]
        IN /\ SetEngine(associateTabToPageNode(E0, tabs, q[2], tid,
                                               {tabs[tid].referrer}, {tabs[tid].historylength}))
           /\ lastEvent' = Event("detail", tid)
           /\ UNCHANGED <<rect, rectStarted, extStarts>>
           /\ UnchangedHost

\* the timer of a run fires: associatePagesCheck(runId)
Tick ==
    \E runId \in runTimers :
        /\ SetEngine(associatePagesCheck([Engine EXCEPT !.runTimers = @ \ {runId}], runId))
        /\ lastEvent' = Event("tick", NoId)
        /\ UNCHANGED <<rect, rectStarted, extStarts>>
        /\ UnchangedHost

\* the chrome.tabs.get callback of associatePagesCheck (lines 1272-1275); its run has ended
TabsGetCallback ==
    \E tid \in tabsGets :
        /\ SetEngine(associateTabToPageNode([Engine EXCEPT !.tabsGets = @ \ {tid}], tabs, EndedRun,
                                            tid, {}, {}))
        /\ lastEvent' = Event("fallback", tid)
        /\ UNCHANGED <<rect, rectStarted, extStarts>>
        /\ UnchangedHost

FreeSlots == {i \in DOMAIN rect : rect[i].pc = "idle"}
Smallest(S) == CHOOSE i \in S : \A j \in S : i <= j

\* The 'rectifyAssociations' timer fires: a pipeline starts with rebuildPageNodeWindowIds.
\* With record set, the pipeline keeps the tree it started from and what it did; started
\* is the number of pipelines started that is kept.
RectTimerFireCounting(record, started) ==
    /\ rectTimer
    /\ FreeSlots # {}
    /\ rectTimer' = FALSE
    /\ rect' = [rect EXCEPT ![Smallest(FreeSlots)] =
                   [Idle EXCEPT !.pc = "rebuild", !.tree0 = IF record THEN tree ELSE <<>>]]
    /\ rectStarted' = started
    /\ lastEvent' = Event("rectify", NoId)
    /\ UNCHANGED <<tree, associationRuns, associationStubbornTabIds, associationConcurrentRuns,
                   nextRunId, runTimers, startQueries, newTabQueries, details, tabsGets, movers,
                   asked, ticks, escalatedAt, extStarts>>
    /\ UnchangedHost

RectTimerFireWith(record) == RectTimerFireCounting(record, rectStarted + 1)

RectTimerFire == RectTimerFireWith(FALSE)

Unrecorded(slot) ==
    IF slot.pc = "done" THEN Idle ELSE [slot EXCEPT !.swaps = 0, !.merges = 0, !.moves = 0]

\* the host callback a pipeline in progress waits for
RectCallbackWith(record) ==
    \E i \in DOMAIN rect :
        /\ rect[i].pc \notin {"idle", "done"}
        /\ \E r \in {RectStep(tree, tabs, rect[i], i, movers)} :
              /\ tree' = r.tree
              /\ rect' = [rect EXCEPT ![i] = IF record THEN r.slot ELSE Unrecorded(r.slot)]
              /\ movers' = r.movers
              /\ lastEvent' = Event(rect[i].pc, i)
        /\ UNCHANGED <<associationRuns, associationStubbornTabIds, associationConcurrentRuns,
                       nextRunId, runTimers, rectTimer, startQueries, newTabQueries, details,
                       tabsGets, asked, ticks, escalatedAt, extStarts, rectStarted>>
        /\ UnchangedHost

RectCallback == RectCallbackWith(FALSE)

\* the callbacks of a movePageNodesToCorrectWindows() that fixBadNodes started
MoverCallback ==
    \E m \in movers :
        /\ IF m.pc = "rebuild"
           THEN /\ tree' = rebuildPageNodeWindowIds(tree, tabs)
                /\ movers' = (movers \ {m}) \cup {[m EXCEPT !.pc = "query"]}
           ELSE /\ tree' = movePageNodesToCorrectWindows(tree, tabs).tree
                /\ movers' = movers \ {m}
        /\ lastEvent' = Event("mover", m.origin)
        /\ UNCHANGED <<associationRuns, associationStubbornTabIds, associationConcurrentRuns,
                       nextRunId, runTimers, rectTimer, startQueries, newTabQueries, details,
                       tabsGets, rect, asked, ticks, escalatedAt, extStarts, rectStarted>>
        /\ UnchangedHost

\* a request that is repeated for as long as the tab has no port
ExistingOutcomeUnbounded(tid, existingPage) ==
    IF PortExists(tabs[tid]) THEN (IF WillAnswer(tabs[tid]) THEN "asked" ELSE "lost")
    ELSE IF existingPage \notin DOMAIN tree.n THEN "gone"
    ELSE "retry"

\* how a call of tryAssociateExistingToRestorablePageNode(existingPage) for tab tid ends:
\* the request is dispatched (to a tab that answers or not), the page is no longer in the
\* tree (lines 1134-1137), the retries are exhausted (1141-1145), or a retry is scheduled
ExistingOutcome(tid, existingPage) ==
    LET tries == IF tid \in DOMAIN associationGetDetailsRetryList
                 THEN associationGetDetailsRetryList[tid] ELSE 0
    IN IF PortExists(tabs[tid]) THEN (IF WillAnswer(tabs[tid]) THEN "asked" ELSE "lost")
       ELSE IF existingPage \notin DOMAIN tree.n THEN "gone"
       ELSE IF tries >= ASSOCIATE_GET_DETAILS_MAX_RETRIES THEN "abandoned"
       ELSE "retry"

\* associationGetDetailsRetryList after that call: the entry is deleted at lines 1143 and
\* 1155, raised at line 1149 and left alone by the return of line 1137
RetryListAfter(tid, existingPage) ==
    LET tries == IF tid \in DOMAIN associationGetDetailsRetryList
                 THEN associationGetDetailsRetryList[tid] ELSE 0
        outcome == ExistingOutcome(tid, existingPage)
    IN IF outcome = "retry"
       THEN [t \in DOMAIN associationGetDetailsRetryList \cup {tid} |->
                IF t = tid THEN tries + 1 ELSE associationGetDetailsRetryList[t]]
       ELSE IF outcome = "gone" THEN associationGetDetailsRetryList
       ELSE [t \in DOMAIN associationGetDetailsRetryList \ {tid} |->
                associationGetDetailsRetryList[t]]

\* tryAssociateExistingToRestorablePageNode(existingPage), for a reloaded tab or on retry
TryExistingPage(tid, existingPage) ==
    /\ associationGetDetailsRetryList' = RetryListAfter(tid, existingPage)
    /\ existing' = [existing EXCEPT ![tid] = ExistingOutcome(tid, existingPage)]

\* the same for the page that is bound to the tab
TryExisting(tid) == TryExistingPage(tid, getNodeByChromeId(tree, tid))

UnchangedByExisting ==
    UNCHANGED <<tabs, tree, associationRuns, associationStubbornTabIds, associationConcurrentRuns,
                nextRunId, runTimers, rectTimer, startQueries, newTabQueries, details, tabsGets,
                rect, movers, asked, ticks, escalatedAt, extStarts, rectStarted, out>>

\* a tab that has a node reloads
ExtAssociateExisting ==
    \E tid \in DOMAIN tabs :
        /\ tabs[tid].reload
        /\ existing[tid] = "none"
        /\ getNodeByChromeId(tree, tid) # NoId
        /\ TryExisting(tid)
        /\ lastEvent' = Event("reload", tid)
        /\ UnchangedByExisting

\* the retry timer of lines 1150-1152
ExistingRetry ==
    \E tid \in DOMAIN tabs :
        /\ existing[tid] = "retry"
        /\ TryExisting(tid)
        /\ lastEvent' = Event("retry", tid)
        /\ UnchangedByExisting

\* the answer of a tab to an 'associate_existing' detail request
ExistingDetailReceived ==
    \E tid \in DOMAIN tabs :
        /\ existing[tid] = "asked"
        /\ SetEngine(associateExistingToRestorablePageNode(Engine, tabs, tid))
        /\ existing' = [existing EXCEPT ![tid] = "answered"]
        /\ lastEvent' = Event("existingDetail", tid)
        /\ UNCHANGED <<tabs, associationGetDetailsRetryList, rect, rectStarted, extStarts, out>>

\* The "stubborn" session is taken up after PriorTicks ticks in which tab 1, which has
\* no port, was pending and no other callback ran (SpecStubborn reaches that state).
PriorTicks == 13
ScenarioStubbornTabIds(sc) == IF sc = "stubborn" THEN (1 :> PriorTicks) ELSE [t \in {} |-> 0]
ScenarioTicks(sc) ==
    [t \in DOMAIN ScenarioTabs(sc) |-> IF sc = "stubborn" /\ t = 1 THEN PriorTicks ELSE 0]

NoCall == [pc |-> "none"]

\* the engine at rest over given tabs and a given tree
AtRest(tabs0, tree0) ==
    /\ tabs = tabs0
    /\ tree = tree0
    /\ associationRuns = [r \in {} |-> r]
    /\ associationStubbornTabIds = [t \in {} |-> 0]
    /\ associationConcurrentRuns = 0
    /\ associationGetDetailsRetryList = [t \in {} |-> 0]
    /\ nextRunId = 1
    /\ runTimers = {}
    /\ rectTimer = FALSE
    /\ startQueries = 0
    /\ newTabQueries = {}
    /\ details = {}
    /\ tabsGets = {}
    /\ rect = [i \in 1..MaxRectInstances |-> Idle]
    /\ movers = {}
    /\ existing = [t \in DOMAIN tabs0 |-> "none"]
    /\ asked = {}
    /\ ticks = [t \in DOMAIN tabs0 |-> 0]
    /\ escalatedAt = [t \in DOMAIN tabs0 |-> {}]
    /\ extStarts = 0
    /\ rectStarted = 0
    /\ lastEvent = Event("init", NoId)

InitWith(sc, stubborn) ==
    /\ tabs = ScenarioTabs(sc)
    /\ tree = ScenarioTree(sc)
    /\ associationRuns = [r \in {} |-> r]
    /\ associationStubbornTabIds = stubborn
    /\ associationConcurrentRuns = 0
    /\ associationGetDetailsRetryList = [t \in {} |-> 0]
    /\ nextRunId = 1
    /\ runTimers = {}
    /\ rectTimer = FALSE
    /\ startQueries = 0
    /\ newTabQueries = {}
    /\ details = {}
    /\ tabsGets = {}
    /\ rect = [i \in 1..MaxRectInstances |-> Idle]
    /\ movers = {}
    /\ existing = [t \in DOMAIN ScenarioTabs(sc) |-> "none"]
    /\ asked = {}
    /\ ticks = ScenarioTicks(sc)
    /\ escalatedAt = [t \in DOMAIN ScenarioTabs(sc) |-> {}]
    /\ extStarts = 0
    /\ rectStarted = 0
    /\ lastEvent = Event("init", NoId)
    /\ out = NoCall

InitOf(sc) == InitWith(sc, ScenarioStubbornTabIds(sc))

Init == \E sc \in ScenarioNames : InitOf(sc)

Next ==
    \/ ExtStart
    \/ StartCallback
    \/ NewTabCallback
    \/ DetailReceived
    \/ Tick
    \/ TabsGetCallback
    \/ RectTimerFire
    \/ RectCallback
    \/ MoverCallback
    \/ ExtAssociateExisting
    \/ ExistingRetry
    \/ ExistingDetailReceived

Spec == Init /\ [][Next]_vars

(***************************************************************************)
(* A session with one tab that never answers, followed for MaxStubbornRuns *)
(* association runs.  The pipeline, which reads and writes the tree and    *)
(* the tree only, is armed at each end of run and left unscheduled.        *)
(***************************************************************************)
StartCallbackLong == StartCallbackUpTo(MaxStubbornRuns)

InitStubborn == InitOf(StubbornScenario)

NextStubborn ==
    \/ ExtStart
    \/ StartCallbackLong
    \/ Tick
    \/ TabsGetCallback

SpecStubborn == InitStubborn /\ [][NextStubborn]_vars


(***************************************************************************)
(* Properties                                                              *)
(***************************************************************************)
PagesOfTab(T, tid) == {m \in DOMAIN T.n : T.n[m].kind = "page" /\ T.n[m].chromeId = tid}

PendingIn(runs) == UNION {SeqRange(runs[r].tabIds) : r \in DOMAIN runs}

\* C1: no tab id is the chromeId of two page nodes.
C1_OneNodePerTab == \A tid \in DOMAIN tabs : Cardinality(PagesOfTab(tree, tid)) <= 1

\* C2: associationConcurrentRuns is 0 or 1 and counts the entries of associationRuns,
\* in every state a step leads to; a step taken while a run is active adds no run.
C2_SingleRun ==
    [][/\ associationConcurrentRuns' \in {0, 1}
       /\ associationConcurrentRuns' = Cardinality(DOMAIN associationRuns')
       /\ (associationConcurrentRuns > 0 => DOMAIN associationRuns' \subseteq DOMAIN associationRuns)]_vars

\* two overlapping starts were both answered by the host, and one run exists
C2_Witness ==
    /\ extStarts = 2
    /\ lastEvent.op = "startRefused"
    /\ associationConcurrentRuns = 1
    /\ Cardinality(DOMAIN associationRuns) = 1

\* C3: the fallback association of a tab that never answers is requested at the tick
\* at which the tab has been pending for the 15th time, at no earlier tick, and the tab
\* is bound by no other path.
C3_FallbackAtThreshold ==
    \A t \in DOMAIN tabs :
        ~PortExists(tabs[t]) =>
            /\ \A k \in escalatedAt[t] : k >= ASSOCIATE_STUBBORN_TAB_FALLBACK_THRESHOLD_ITERATIONS
            /\ (ticks[t] >= ASSOCIATE_STUBBORN_TAB_FALLBACK_THRESHOLD_ITERATIONS
                  => ASSOCIATE_STUBBORN_TAB_FALLBACK_THRESHOLD_ITERATIONS \in escalatedAt[t])
            /\ (t \in tabsGets => escalatedAt[t] # {})
            /\ (Bound(tree, t) =>
                  ASSOCIATE_STUBBORN_TAB_FALLBACK_THRESHOLD_ITERATIONS \in escalatedAt[t])

\* the tab that never answers has just been bound by the fallback requested at tick 15
C3_Witness ==
    \E t \in DOMAIN tabs :
        /\ ~PortExists(tabs[t])
        /\ lastEvent = Event("fallback", t)
        /\ Bound(tree, t)
        /\ escalatedAt[t] = {ASSOCIATE_STUBBORN_TAB_FALLBACK_THRESHOLD_ITERATIONS}
        /\ ticks[t] = ASSOCIATE_STUBBORN_TAB_FALLBACK_THRESHOLD_ITERATIONS

Enumerated == nextRunId > 1

IsDeferredNewTab(tab) == isNewTabUrl(tab.url) /\ tab.index = 0 /\ ~tab.pinned

W3 == 103

DisChoices == [parent : {1, 2}, windowId : {W1, W2, W3}, url : {"a", "b"}, index : {0, 1}]

DisTabsOf(choice) ==
    [t \in DOMAIN choice |->
        Tab(choice[t].windowId, choice[t].index, choice[t].url, "", FALSE, FALSE, "ok", FALSE)]

\* window nodes 1 and 2, and page node t + 2 bound to tab t
DisTreeOf(choice) ==
    LET n == Len(choice)
        pagesOf(w) == SelectSeq([i \in 1..n |-> i + 2], LAMBDA m : choice[m - 2].parent = w)
    IN [n |-> [m \in 1..(n + 2) |->
                  IF m = 1 THEN WindowNode(W1, FALSE)
                  ELSE IF m = 2 THEN WindowNode(W2, FALSE)
                  ELSE LPage(DisTabsOf(choice)[m - 2], m - 2)],
        c |-> [m \in 0..(n + 2) |->
                  IF m = Root THEN <<1, 2>> ELSE IF m \in {1, 2} THEN pagesOf(m) ELSE <<>>],
        next |-> n + 3]

IterationsArgs == {{}} \cup {{k} : k \in 0..MaxIterationsArg}

InitDis ==
    \E choice \in [1..MaxDisNodes -> DisChoices], iterations \in IterationsArgs :
        /\ AtRest(DisTabsOf(choice), DisTreeOf(choice))
        /\ out = [pc |-> "input", iterations |-> iterations]

Disambiguate ==
    /\ out.pc = "input"
    /\ \E D \in {disambiguatePageNodesByWindowId(tree, out.iterations)} :
          /\ tree' = D.tree
          /\ out' = [pc |-> "disambiguated", iterations |-> out.iterations, D |-> D]
    /\ lastEvent' = Event("disambiguate", NoId)
    /\ UNCHANGED <<tabs, associationRuns, associationStubbornTabIds, associationConcurrentRuns,
                   associationGetDetailsRetryList, nextRunId, runTimers, rectTimer, startQueries,
                   newTabQueries, details, tabsGets, rect, movers, existing, asked, ticks,
                   escalatedAt, extStarts, rectStarted>>

NextDis == Disambiguate

SpecDis == InitDis /\ [][NextDis]_vars

\* max(k, 1), k being the argument or its default
RoundsAllowed(iterations) ==
    IF iterations = {} THEN DEFAULT_DISAMBIGUATION_ITERATIONS
    ELSE IF \E k \in iterations : k > 1 THEN CHOOSE k \in iterations : TRUE ELSE 1

Residue(T) == {e \in DOMAIN T.n : Mismatched(T, e)}

\* C4 as stated: a call ends within max(k, 1) rounds and every node it leaves
\* mismatched was logged as 'Disambiguation missed'.
C4_ResidueLogged ==
    out.pc = "disambiguated" =>
        /\ out.D.rounds <= RoundsAllowed(out.iterations)
        /\ Residue(tree) \subseteq out.D.logged

AloneInGroup(T, e) == Len(DisambiguationGroup(T, FuzzyKey(T, e))) < 2

\* C4, amended: a call ends within max(k, 1) rounds; every node it leaves mismatched
\* was logged in the last round, or was exchanged in the last round, or was the only
\* mismatched node of its key as the last round began; and when the last round made
\* no attempt, every node left mismatched is of the third kind.
C4_ResidueAccounted ==
    out.pc = "disambiguated" =>
        /\ out.D.rounds <= RoundsAllowed(out.iterations)
        /\ out.D.rounds < RoundFuel
        /\ \A e \in Residue(tree) :
              \/ e \in out.D.missed
              \/ e \in out.D.swapped
              \/ (Mismatched(out.D.before, e) /\ AloneInGroup(out.D.before, e))
        /\ (out.D.swapCount = 0 =>
              \A e \in Residue(tree) : Mismatched(out.D.before, e) /\ AloneInGroup(out.D.before, e))
        /\ (out.D.rounds < RoundsAllowed(out.iterations) => out.D.swapCount = 0)

\* a call with the largest argument ran that many rounds, exchanged nodes, and left
\* nodes mismatched
C4_Witness ==
    /\ out.pc = "disambiguated"
    /\ out.iterations = {MaxIterationsArg}
    /\ out.D.rounds = MaxIterationsArg
    /\ out.D.swaps > 0
    /\ Residue(tree) # {}

InProgress == {i \in DOMAIN rect : rect[i].pc \notin {"idle", "done"}}

\* C5: at most one pipeline is in progress.
C5_OnePipeline == Cardinality(InProgress) <= 1

\* C6: while a movePageNodesToCorrectWindows that the fixBadNodes of a pipeline started
\* is outstanding, that pipeline is at no later stage.
C6_RepairBeforeNextStage ==
    \A m \in movers : m.origin # 0 => rect[m.origin].pc \notin {"final", "idle", "done"}


(***************************************************************************)
(* The pipeline run twice in succession: the association callbacks arrive  *)
(* until the first pipeline starts and none arrives afterwards; the second *)
(* pipeline is triggered once the first is done and no placement repair is *)
(* outstanding.  Both keep the tree they started from and what they did.   *)
(***************************************************************************)
AssociationPhase ==
    /\ rectStarted = 0
    /\ \/ ExtStart
       \/ StartCallback
       \/ NewTabCallback
       \/ DetailReceived
       \/ Tick
       \/ TabsGetCallback
       \/ ExtAssociateExisting
       \/ ExistingRetry
       \/ ExistingDetailReceived

FirstRectify == rectStarted = 0 /\ RectTimerFireWith(TRUE)

RectCallbackRecorded == RectCallbackWith(TRUE)

\* rectifyAssociations() is called again
ExtRectify ==
    /\ rectStarted = 1
    /\ rect[1].pc = "done"
    /\ movers = {}
    /\ ~rectTimer
    /\ rectTimer' = TRUE
    /\ lastEvent' = Event("trigger", NoId)
    /\ UNCHANGED <<tree, associationRuns, associationStubbornTabIds, associationConcurrentRuns,
                   nextRunId, runTimers, startQueries, newTabQueries, details, tabsGets, rect,
                   movers, asked, ticks, escalatedAt, extStarts, rectStarted>>
    /\ UnchangedHost

SecondRectify == rectStarted = 1 /\ rect[1].pc = "done" /\ RectTimerFireWith(TRUE)

NextIdem ==
    \/ AssociationPhase
    \/ MoverCallback
    \/ FirstRectify
    \/ RectCallbackRecorded
    \/ ExtRectify
    \/ SecondRectify

InitIdem == \E sc \in ScenarioNames \cup {ShiftedScenario, StrayScenario} : InitOf(sc)

SpecIdem == InitIdem /\ [][NextIdem]_vars

Did(slot) == slot.swaps + slot.merges + slot.moves

\* C7: a second pipeline run right after the first makes no swap, no merge and no move,
\* and leaves the tree as the first left it.
C7_SecondRunChangesNothing ==
    (rectStarted = 2 /\ rect[2].pc = "done") =>
        /\ Did(rect[2]) = 0
        /\ tree = rect[2].tree0


(***************************************************************************)
(* Duplicate restore                                                       *)
(***************************************************************************)
\* the tree the session was loaded with
LoadedTree ==
    ScenarioTree(CHOOSE sc \in ScenarioNames \cup {ShiftedScenario, StrayScenario} :
                     ScenarioTabs(sc) = tabs)

SameRestoreKey(T, a, b) ==
    /\ T.n[a].url = T.n[b].url
    /\ T.n[a].referrer = T.n[b].referrer

\* the hibernated, restorable, unpinned page nodes of T that share url and referrer with m
DuplicatesOf(T, m) ==
    {e \in DOMAIN T.n : /\ T.n[e].kind = "page" /\ T.n[e].hibernated /\ T.n[e].restorable
                        /\ ~T.n[e].pinned /\ ~T.n[e].incognito
                        /\ SameRestoreKey(T, e, m)}

\* several nodes at distinct stored positions, and as many live tabs with that url at
\* exactly those positions under one live window
IsDuplicateRestore(T, G) ==
    LET live == {t \in DOMAIN tabs : \E e \in G : tabs[t].url = T.n[e].url} IN
    /\ Cardinality(G) > 1
    /\ \A a, b \in G : a # b => T.n[a].index # T.n[b].index
    /\ Cardinality(live) = Cardinality(G)
    /\ {tabs[t].index : t \in live} = {T.n[e].index : e \in G}
    /\ \A t, u \in live : tabs[t].windowId = tabs[u].windowId

DuplicateGroups ==
    {G \in {DuplicatesOf(LoadedTree, m) : m \in DOMAIN LoadedTree.n} :
        G # {} /\ IsDuplicateRestore(LoadedTree, G)}

AllBound(G) == \A e \in G : e \in DOMAIN tree.n /\ isTab(tree, e)

BoundByPosition(G) ==
    \A e \in G : tabs[tree.n[e].chromeId].index = LoadedTree.n[e].index

AfterDisambiguation == {"moveRebuild", "moveQuery", "final", "done"}

RestoreChoices ==
    [url : {"a", "g1x"}, title : {"", "a"}, referrer : {"r1", "gb1"}, pinned : BOOLEAN,
     otherUrl : {"a", "b", "g1y"}, otherTitle : {"a", "b"}, otherReferrer : {"r1", "r2", ""},
     otherPinned : BOOLEAN, layout : {"sibling", "live"}]

RestoreTabOf(ch) == Tab(W1, 0, ch.url, ch.referrer, ch.pinned, FALSE, "ok", FALSE)

RestoreTreeOf(ch) ==
    LET page == [HPage(0, ch.url, ch.referrer, FALSE) EXCEPT !.title = ch.title]
        other == [HPage(1, ch.otherUrl, ch.otherReferrer, ch.otherPinned)
                    EXCEPT !.title = ch.otherTitle]
    IN IF ch.layout = "sibling"
       THEN MkTree(1 :> HWindow @@ 2 :> page @@ 3 :> other, 0 :> <<1>> @@ 1 :> <<2, 3>>)
       ELSE MkTree(1 :> HWindow @@ 2 :> page @@ 3 :> other @@ 4 :> WindowNode(W1, FALSE),
                   0 :> <<1, 4>> @@ 1 :> <<2>> @@ 4 :> <<3>>)

InitRestore ==
    \E ch \in RestoreChoices :
        /\ AtRest(1 :> RestoreTabOf(ch), RestoreTreeOf(ch))
        /\ out = [pc |-> "input", page |-> 2]

Restore ==
    /\ out.pc = "input"
    /\ tree' = restoreAssociatedPage(tree, tabs[1], 1, out.page)
    /\ out' = [pc |-> "restored", page |-> out.page, before |-> tree]
    /\ lastEvent' = Event("restore", 1)
    /\ UNCHANGED <<tabs, associationRuns, associationStubbornTabIds, associationConcurrentRuns,
                   associationGetDetailsRetryList, nextRunId, runTimers, rectTimer, startQueries,
                   newTabQueries, details, tabsGets, rect, movers, existing, asked, ticks,
                   escalatedAt, extStarts, rectStarted>>

NextRestore == Restore

SpecRestore == InitRestore /\ [][NextRestore]_vars

\* the url+title+referrer+history-length+pinned+incognito key of a page node
ExactKey(T, e) ==
    <<T.n[e].url, T.n[e].title, T.n[e].referrer, T.n[e].historylength, T.n[e].pinned,
      T.n[e].incognito>>

OtherPages(T, e) == {m \in DOMAIN T.n : m # e /\ T.n[m].kind = "page"}

\* the restored page's container was hibernated when the restore began
ContainerWasHibernated ==
    /\ out.pc = "restored"
    /\ isWindow(out.before, topParent(out.before, out.page))
    /\ out.before.n[topParent(out.before, out.page)].hibernated

\* the container node w is bound to window id W, every other node bound to W is gone and
\* the children it had are children of w
InferredAs(w, W) ==
    /\ tree.n[w].chromeId = W
    /\ ~tree.n[w].hibernated
    /\ ~tree.n[w].restorable
    /\ ~tree.n[w].collapsed
    /\ \A m \in DOMAIN tree.n : m # w => tree.n[m].chromeId # W
    /\ \A m \in DOMAIN out.before.n :
          (m # w /\ out.before.n[m].chromeId = W) =>
              SeqRange(out.before.c[m]) \subseteq SeqRange(tree.c[w])

ContainerUnchanged(w) ==
    /\ tree.n[w] = out.before.n[w]
    /\ tree.c = out.before.c
    /\ DOMAIN tree.n = DOMAIN out.before.n

SameUrl(u, v) ==
    IF UrlParts(u).host = "www.google.com" /\ UrlParts(u).path = "/search" /\ UrlParts(u).q # ""
    THEN /\ UrlParts(v).host = "www.google.com" /\ UrlParts(v).path = "/search"
         /\ UrlParts(v).q = UrlParts(u).q /\ UrlParts(v).scheme = UrlParts(u).scheme
    ELSE u = v

Blanked(r) == IF r \in {"gb1", "gb2"} THEN "" ELSE r

\* node m passes for node e: the keys compared as the matcher compares them
PassesFor(T, e, m) ==
    /\ SameUrl(T.n[e].url, T.n[m].url)
    /\ (T.n[e].title = "" \/ T.n[m].title = T.n[e].title)
    /\ T.n[m].historylength = T.n[e].historylength
    /\ T.n[m].pinned = T.n[e].pinned
    /\ T.n[m].incognito = T.n[e].incognito
    /\ \/ T.n[m].referrer = T.n[e].referrer
       \/ T.n[e].pinned
       \/ Blanked(T.n[m].referrer) = Blanked(T.n[e].referrer)

MaxMergeIndex == 3

MergeChoices == [from : (SUBSET (0..MaxMergeIndex)) \ {{}}, to : SUBSET (0..MaxMergeIndex)]

\* the positions of the children: those of fromWindow, then those of toWindow
MergePositions(ch) == SortedSeq(ch.from) \o SortedSeq(ch.to)

\* tab k is the tab of the k-th child
MergeTabsOf(ch) ==
    [k \in 1..Len(MergePositions(ch)) |->
        Tab(W1, MergePositions(ch)[k], "a", "", FALSE, FALSE, "ok", FALSE)]

\* page node k + 2 is bound to tab k
MergeTreeOf(ch) ==
    LET n == Len(MergePositions(ch))
        nf == Cardinality(ch.from)
    IN [n |-> [m \in 1..(n + 2) |->
                  IF m = 1 THEN WindowNode(W1, FALSE)
                  ELSE IF m = 2 THEN [HWindow EXCEPT !.collapsed = FALSE]
                  ELSE LPage(MergeTabsOf(ch)[m - 2], m - 2)],
        c |-> [m \in 0..(n + 2) |->
                  IF m = Root THEN <<1, 2>>
                  ELSE IF m = 1 THEN [k \in 1..nf |-> k + 2]
                  ELSE IF m = 2 THEN [k \in 1..(n - nf) |-> k + nf + 2]
                  ELSE <<>>],
        next |-> n + 3]

InitMerge ==
    \E ch \in MergeChoices :
        /\ AtRest(MergeTabsOf(ch), MergeTreeOf(ch))
        /\ out = [pc |-> "input", from |-> 1, to |-> 2]

Merge ==
    /\ out.pc = "input"
    /\ tree' = mergeWindowsPreservingTabIndexes(tree, out.from, out.to)
    /\ out' = [pc |-> "merged", from |-> out.from, to |-> out.to, before |-> tree]
    /\ lastEvent' = Event("merge", NoId)
    /\ UNCHANGED <<tabs, associationRuns, associationStubbornTabIds, associationConcurrentRuns,
                   associationGetDetailsRetryList, nextRunId, runTimers, rectTimer, startQueries,
                   newTabQueries, details, tabsGets, rect, movers, existing, asked, ticks,
                   escalatedAt, extStarts, rectStarted>>

NextMerge == Merge

SpecMerge == InitMerge /\ [][NextMerge]_vars

\* the children of window node w that are bound to a tab, in their order
TabChildren(T, w) == SelectSeq(T.c[w], LAMBDA e : isTab(T, e))

InPositionOrder(T, kids) ==
    \A i, j \in 1..Len(kids) : i < j => T.n[kids[i]].index <= T.n[kids[j]].index

\* C11: after the merge every child of fromWindow is a child of toWindow, and the
\* children of toWindow that are bound to a tab are in the order of their positions.
C11_MergedInOrder ==
    out.pc = "merged" =>
        /\ SeqRange(out.before.c[out.from]) \subseteq SeqRange(tree.c[out.to])
        /\ InPositionOrder(tree, TabChildren(tree, out.to))

\* the claim's own case: positions 0, 1, 2 merged into a window that holds position 1
C11_ExampleInOrder ==
    (out.pc = "merged" /\ Len(out.before.c[out.from]) = 3 /\ Len(out.before.c[out.to]) = 1
       /\ \A k \in 1..3 : out.before.n[out.before.c[out.from][k]].index = k - 1
       /\ out.before.n[out.before.c[out.to][1]].index = 1)
        => InPositionOrder(tree, TabChildren(tree, out.to))


(***************************************************************************)
(* The restorable flag                                                     *)
(***************************************************************************)
\* C12: no step changes the restorable flag of a node from false to true.
C12_RestorableOnlyFalls ==
    [][\A m \in DOMAIN tree.n \cap DOMAIN tree'.n :
          ~tree.n[m].restorable => ~tree'.n[m].restorable]_vars

\* a container-association stage of the pipeline has just bound the window node of two
\* restored duplicates: the flags of the window node and of a page node have fallen
C12_Witness ==
    /\ tabs = ScenarioTabs("duplicates")
    /\ lastEvent.op = "associate"
    /\ LoadedTree.n[1].restorable /\ ~tree.n[1].restorable /\ tree.n[1].chromeId = W1
    /\ LoadedTree.n[2].restorable /\ ~tree.n[2].restorable


(***************************************************************************)
(* Placement                                                               *)
(***************************************************************************)
\* the page nodes bound to a live tab
BoundPages(T) == {m \in DOMAIN T.n : isTab(T, m) /\ T.n[m].chromeId \in DOMAIN tabs}

\* page node m sits under the window node bound to the window of its tab
UnderItsWindow(T, m) ==
    /\ isWindow(T, topParent(T, m))
    /\ T.n[topParent(T, m)].chromeId = tabs[T.n[m].chromeId].windowId

\* C13: once a pipeline has run to its end, every page node bound to a live tab has as
\* its top parent the window node bound to that tab's window.
C13_PagesUnderTheirWindow ==
    (\E i \in DOMAIN rect : rect[i].pc = "done") =>
        \A m \in BoundPages(tree) : UnderItsWindow(tree, m)


(***************************************************************************)
(* fixBadNodes on its own.  The children of the root are up to MaxFixRoot  *)
(* nodes, each a window node with one page, a popup window node with one   *)
(* page, or a stray page; the first window node may hold a nested window   *)
(* node, popup or not, with a page of its own.                             *)
(***************************************************************************)
MaxFixRoot == 3

FixKinds == {"window", "popup", "page"}

FixChoices ==
    [root : UNION {[1..k -> FixKinds] : k \in 1..MaxFixRoot}, nested : {"none", "window", "popup"}]

EmptyTree == [n |-> <<>>, c |-> (Root :> <<>>), next |-> 1]

FixWindow(kind) == [WindowNode(W1, FALSE) EXCEPT !.type = IF kind = "popup" THEN "popup" ELSE "normal"]

\* a window node of this kind with one page, as the last child of parent
AddFixWindow(T, kind, parent) ==
    addNode(addNode(T, FixWindow(kind), parent), HPage(0, "a", "", FALSE), T.next)

RECURSIVE AddFixRoot(_, _)
AddFixRoot(T, kinds) ==
    IF kinds = <<>> THEN T
    ELSE AddFixRoot(IF Head(kinds) = "page" THEN addNode(T, HPage(0, "b", "", FALSE), Root)
                    ELSE AddFixWindow(T, Head(kinds), Root),
                    Tail(kinds))

FixTreeOf(ch) ==
    LET T == AddFixRoot(EmptyTree, ch.root)
        wins == SelectSeq(T.c[Root], LAMBDA e : T.n[e].kind = "window")
    IN IF ch.nested = "none" \/ wins = <<>> THEN T ELSE AddFixWindow(T, ch.nested, wins[1])

InitFix ==
    \E ch \in FixChoices :
        /\ AtRest(1 :> Tab(W1, 0, "a", "", FALSE, FALSE, "ok", FALSE), FixTreeOf(ch))
        /\ out = [pc |-> "input"]

FixBad ==
    /\ out.pc = "input"
    /\ \E f \in {fixBadNodes(tree)} :
          /\ tree' = f.tree
          /\ out' = [pc |-> "fixed", before |-> tree, movedWindow |-> f.movedWindow]
    /\ lastEvent' = Event("fix", NoId)
    /\ UNCHANGED <<tabs, associationRuns, associationStubbornTabIds, associationConcurrentRuns,
                   associationGetDetailsRetryList, nextRunId, runTimers, rectTimer, startQueries,
                   newTabQueries, details, tabsGets, rect, movers, existing, asked, ticks,
                   escalatedAt, extStarts, rectStarted>>

NextFix == FixBad

SpecFix == InitFix /\ [][NextFix]_vars

\* the children of the root that are no window nodes
Strays(T) == {e \in SeqRange(T.c[Root]) : T.n[e].kind # "window"}

NormalWindows(T) == {e \in DOMAIN T.n : T.n[e].kind = "window" /\ T.n[e].type # "popup"}

\* C14: after fixBadNodes every child of the root is a window node and every window
\* node is a child of the root; each stray node is the last child of a window node that
\* is no popup, one that existed when there was one and a new one otherwise; no node is
\* lost and no window node is added otherwise.
C14_StructureRepaired ==
    out.pc = "fixed" =>
        /\ \A e \in SeqRange(tree.c[Root]) : tree.n[e].kind = "window"
        /\ \A e \in DOMAIN tree.n : tree.n[e].kind = "window" => ParentOf(tree, e) = Root
        /\ DOMAIN out.before.n \subseteq DOMAIN tree.n
        /\ \A b \in Strays(out.before) :
              LET w == ParentOf(tree, b) IN
              /\ w \in NormalWindows(tree)
              /\ b \in SeqRange(tree.c[w])
              /\ (NormalWindows(out.before) # {} <=> w \in DOMAIN out.before.n)
        /\ \A e \in DOMAIN tree.n \ DOMAIN out.before.n :
              /\ Strays(out.before) # {} /\ NormalWindows(out.before) = {}
              /\ e \in NormalWindows(tree)
              /\ SeqRange(tree.c[e]) = Strays(out.before)
        /\ (out.movedWindow <=>
              \E e \in DOMAIN out.before.n :
                 out.before.n[e].kind = "window" /\ ParentOf(out.before, e) # Root)

\* a popup window node and a stray page were the children of the root: a window node was
\* created for the stray page, and the window node nested in the popup is at the root
C14_Witness ==
    /\ out.pc = "fixed"
    /\ Strays(out.before) # {}
    /\ NormalWindows(out.before) = {}
    /\ \E e \in DOMAIN out.before.n :
          out.before.n[e].kind = "window" /\ ParentOf(out.before, e) # Root
    /\ \E w \in DOMAIN tree.n \ DOMAIN out.before.n : SeqRange(tree.c[w]) = Strays(out.before)


(***************************************************************************)
(* The end of a run                                                        *)
(***************************************************************************)
\* the tabs a run enumerates: every live tab but the sidebar
EnumeratedTabs == {t \in DOMAIN tabs : ~isSidebarUrl(tabs[t].url)}

BoundOnce(T, t) == Cardinality(PagesOfTab(T, t)) = 1

\* C15: in the state a run ends in, every tab but the sidebar is bound to exactly one
\* page node or is in the pending list the run had; a run that ends in the callback
\* that created it had an empty pending list.
C15_BoundOrQueuedAtRunEnd ==
    [][/\ \A r \in DOMAIN associationRuns \ DOMAIN associationRuns' :
             \A t \in EnumeratedTabs :
                 BoundOnce(tree', t) \/ t \in SeqRange(associationRuns[r].tabIds)
       /\ (lastEvent'.op = "enumerate" /\ DOMAIN associationRuns' = {}) =>
             \A t \in EnumeratedTabs : BoundOnce(tree', t)]_vars


(***************************************************************************)
(* The coordinator under fair scheduling.  The host runs one callback at a *)
(* time: a timer that is armed or a request that is outstanding becomes    *)
(* ready, and the callback that is ready runs before anything else does.   *)
(* A timer or request that is there again and again becomes ready at some  *)
(* time, and a callback that is ready runs; calls from outside are not     *)
(* required to happen.  Runs may follow one another without end, so what   *)
(* only records the past is left as it is (ticks, escalatedAt,             *)
(* rectStarted), and the id of a run that has ended, which nothing names   *)
(* any more, is given to the next run.                                     *)
(***************************************************************************)
LaggingScenario == "lagging"

LiveScenarios == {"nonscriptable", LaggingScenario}

ReadyOps == {"startReady", "newTabReady", "detailReady", "tickReady", "fallbackReady",
             "rectifyReady", "stageReady", "existingReady"}

IsReady == lastEvent.op \in ReadyOps

\* the host makes a callback ready
Ready(op) ==
    /\ ~IsReady
    /\ lastEvent' = Event(op, NoId)
    /\ UNCHANGED <<tree, associationRuns, associationStubbornTabIds, associationConcurrentRuns,
                   nextRunId, runTimers, rectTimer, startQueries, newTabQueries, details,
                   tabsGets, rect, movers, asked, ticks, escalatedAt, extStarts, rectStarted>>
    /\ UnchangedHost

Unrecording(E) == [E EXCEPT !.ticks = ticks, !.escalatedAt = escalatedAt]

ExtStartLive == ~IsReady /\ ExtStart

StartReady == startQueries > 0 /\ Ready("startReady")

StartCallbackLive ==
    /\ lastEvent.op = "startReady"
    /\ SetEngine(StartQueryCallback([Engine EXCEPT !.startQueries = @ - 1,
                                                   !.nextRunId = 1], tabs))
    /\ lastEvent' = Event(IF associationConcurrentRuns > 0 THEN "startRefused" ELSE "enumerate", NoId)
    /\ UNCHANGED <<rect, rectStarted, extStarts>>
    /\ UnchangedHost

NewTabReady == newTabQueries # {} /\ Ready("newTabReady")

NewTabCallbackLive == lastEvent.op = "newTabReady" /\ NewTabCallback

DetailReady == details # {} /\ Ready("detailReady")

DetailReceivedLive == lastEvent.op = "detailReady" /\ DetailReceived

TickReady == runTimers # {} /\ Ready("tickReady")

TickLive ==
    /\ lastEvent.op = "tickReady"
    /\ \E runId \in runTimers :
        /\ SetEngine(Unrecording(associatePagesCheck([Engine EXCEPT !.runTimers = @ \ {runId}], runId)))
        /\ lastEvent' = Event("tick", NoId)
        /\ UNCHANGED <<rect, rectStarted, extStarts>>
        /\ UnchangedHost

FallbackReady == tabsGets # {} /\ Ready("fallbackReady")

TabsGetCallbackLive == lastEvent.op = "fallbackReady" /\ TabsGetCallback

RectifyReady == rectTimer /\ FreeSlots # {} /\ Ready("rectifyReady")

RectTimerFireLive == lastEvent.op = "rectifyReady" /\ RectTimerFireCounting(FALSE, rectStarted)

StageReady == (\E i \in DOMAIN rect : rect[i].pc \notin {"idle", "done"}) /\ Ready("stageReady")

RectCallbackLive == lastEvent.op = "stageReady" /\ RectCallback

\* every tab of the "lagging" session has been counted PriorTicks times before
LiveStubbornTabIds(sc) ==
    IF sc = LaggingScenario THEN [t \in DOMAIN ScenarioTabs(sc) |-> PriorTicks]
    ELSE [t \in {} |-> 0]

InitLive == \E sc \in LiveScenarios : InitWith(sc, LiveStubbornTabIds(sc))

NextLive ==
    \/ ExtStartLive
    \/ StartReady
    \/ StartCallbackLive
    \/ NewTabReady
    \/ NewTabCallbackLive
    \/ DetailReady
    \/ DetailReceivedLive
    \/ TickReady
    \/ TickLive
    \/ FallbackReady
    \/ TabsGetCallbackLive
    \/ RectifyReady
    \/ RectTimerFireLive
    \/ StageReady
    \/ RectCallbackLive

\* the callback that is ready has run: the events a callback leaves behind
RanEvents ==
    {Event(op, t) : op \in {"startRefused", "enumerate", "newTab", "detail", "tick", "fallback",
                            "rectify", "rebuild", "associate", "moveRebuild", "moveQuery",
                            "final", "existingDetail"},
                    t \in DOMAIN tabs \cup DOMAIN rect \cup {NoId}}

Ran == IsReady /\ lastEvent' \in RanEvents

Fairness ==
    /\ SF_vars(StartReady)
    /\ SF_vars(NewTabReady)
    /\ SF_vars(DetailReady)
    /\ SF_vars(TickReady)
    /\ SF_vars(FallbackReady)
    /\ SF_vars(RectifyReady)
    /\ SF_vars(StageReady)
    /\ WF_lastEvent(Ran)

SpecLive == InitLive /\ [][NextLive]_vars /\ Fairness

\* no run is active, none is about to start, and every tab but the sidebar is bound or
\* its fallback association has been requested
Settled ==
    /\ associationConcurrentRuns = 0
    /\ startQueries = 0
    /\ runTimers = {}
    /\ \A t \in EnumeratedTabs : Bound(tree, t) \/ t \in tabsGets

\* C16: once association has been started, the coordinator eventually settles for good.
C16_EventuallySettled == <>(extStarts > 0) => <>[]Settled

(***************************************************************************)
(* The stubborn counter table                                              *)
(***************************************************************************)
Escalated(t) == escalatedAt[t] # {}

\* C17: the stubborn counter table holds no entry for a tab that is bound or that has
\* been escalated to the fallback association.
C17_NoEntryOnceBoundOrEscalated ==
    \A t \in DOMAIN associationStubbornTabIds : ~Bound(tree, t) /\ ~Escalated(t)

\* the detail request answered in this step: the one of the tab of the event that is gone
AnsweredIn(q) == /\ q \in details /\ q \notin details'
                 /\ lastEvent'.op = "detail" /\ lastEvent'.tab = q[1]

\* C18: when a tab's detail is received while its run is active, the tab's id is no longer
\* in the pending list of that run.
C18_DetailLeavesPendingList ==
    [][\A q \in details :
          AnsweredIn(q) /\ q[2] \in DOMAIN associationRuns /\ q[2] \in DOMAIN associationRuns'
              => q[1] \notin SeqRange(associationRuns'[q[2]].tabIds)]_vars

(***************************************************************************)
(* Ticks                                                                   *)
(***************************************************************************)
RunIds == 0..(MaxRuns + 1)

\* the run that the tick of this step belongs to
TickedIn(r) == r \in runTimers /\ lastEvent'.op = "tick" /\ r \notin runTimers'

\* C19: the tick of an active run ends the run and calls startAssociationRun, whose query
\* is issued because no run is active then; the id of a run that has ended is not given
\* to a later run, so a run is ticked at most once; and associatePagesCheck with the id
\* of a run that is not in the table changes nothing.
C19_TickEndsAndRestarts ==
    [][/\ lastEvent'.op = "tick" =>
            \E r \in DOMAIN associationRuns :
                /\ TickedIn(r)
                /\ r \notin DOMAIN associationRuns'
                /\ associationConcurrentRuns' = associationConcurrentRuns - 1
                /\ startQueries' = startQueries + 1
       /\ \A r \in DOMAIN associationRuns' \ DOMAIN associationRuns : r >= nextRunId
       /\ \A r \in DOMAIN associationRuns' : r < nextRunId'
       /\ nextRunId' >= nextRunId
       /\ \A r \in RunIds \ DOMAIN associationRuns : associatePagesCheck(Engine, r) = Engine]_vars

\* a tick has ended run 1 and the query of the next run is outstanding
C19_Witness ==
    /\ lastEvent.op = "tick"
    /\ 1 \notin DOMAIN associationRuns
    /\ nextRunId > 1
    /\ associationConcurrentRuns = 0
    /\ startQueries > 0

(***************************************************************************)
(* The end of a run                                                        *)
(***************************************************************************)
\* what endAssociationRun(r) is to leave behind when called in E
EndedWell(E, r) ==
    LET res == endAssociationRunCall(E, r) IN
    /\ res.thrown = NotThrown
    /\ r \notin DOMAIN res.e.runs
    /\ DOMAIN res.e.runs = DOMAIN E.runs \ {r}
    /\ res.e.conc = E.conc - 1
    /\ res.e.conc >= 0
    /\ res.e.rectTimer
    /\ r \notin res.e.runTimers

\* C20: endAssociationRun on an active run removes the run from the table, lowers the
\* counter by one and not below zero, arms the timer of the Reconciler and leaves no timer
\* of the run, whether the run's timer is still armed or has fired already, and ends
\* with no exception; a step that ends a run shows these effects.
C20_EndOfRun ==
    [][/\ \A r \in DOMAIN associationRuns :
             /\ EndedWell(Engine, r)
             /\ EndedWell([Engine EXCEPT !.runTimers = @ \ {r}], r)
       /\ \A r \in DOMAIN associationRuns \ DOMAIN associationRuns' :
             /\ associationConcurrentRuns' = associationConcurrentRuns - 1
             /\ associationConcurrentRuns' >= 0
             /\ rectTimer'
             /\ r \notin runTimers']_vars

\* a run has been ended by its tick, whose timer had fired: the Reconciler is scheduled
C20_Witness ==
    /\ lastEvent.op = "tick"
    /\ associationRuns = <<>>
    /\ associationConcurrentRuns = 0
    /\ rectTimer
    /\ runTimers = {}

(***************************************************************************)
(* The stages of the pipeline.  The tabs of window W1 are bound to page    *)
(* nodes, each under a restorable window node or under the live window     *)
(* node of W1, which may exist without children; the pipeline is           *)
(* scheduled and runs, keeping what it did.                                *)
(***************************************************************************)
MaxStageTabs == 3

StageUrls == [t \in 1..MaxStageTabs |-> IF t = 1 THEN "a" ELSE IF t = 2 THEN "b" ELSE "file"]

StageChoices ==
    {ch \in [under : UNION {[1..n -> {"restorable", "live"}] : n \in 1..MaxStageTabs},
             liveNode : BOOLEAN, twin : BOOLEAN] :
        (\E t \in DOMAIN ch.under : ch.under[t] = "live") => ch.liveNode}

\* the twin is a tab of window W2 with the url of tab 1
TwinOf(ch) == Len(ch.under) + 1

StageTabsOf(ch) ==
    [t \in DOMAIN ch.under \cup (IF ch.twin THEN {TwinOf(ch)} ELSE {}) |->
        IF t = TwinOf(ch) THEN Tab(W2, 0, StageUrls[1], "", FALSE, FALSE, "ok", FALSE)
        ELSE Tab(W1, t - 1, StageUrls[t], "", FALSE, FALSE, "ok", FALSE)]

\* Node 1 is the restorable window node, node 2 the live one of W1, node t + 2 the page in
\* the place of tab t.  With a twin, the live window node of W2 and the page under it
\* follow, and the twin and tab 1 are bound to each other's page.
StageTreeOf(ch) ==
    LET tabsOf == StageTabsOf(ch)
        n == Len(ch.under)
        boundTo(t) == IF ~ch.twin THEN t ELSE IF t = 1 THEN TwinOf(ch) ELSE IF t = TwinOf(ch) THEN 1 ELSE t
        pages == [m \in {t + 2 : t \in DOMAIN ch.under} |-> LPage(tabsOf[boundTo(m - 2)], boundTo(m - 2))]
        kids(where) == SelectSeq([t \in DOMAIN ch.under |-> t + 2],
                                 LAMBDA m : ch.under[m - 2] = where)
        ownNodes == IF ch.liveNode THEN 1 :> HWindow @@ 2 :> WindowNode(W1, FALSE) @@ pages
                    ELSE 1 :> HWindow @@ pages
        twinNodes == IF ch.twin
                     THEN (n + 3) :> WindowNode(W2, FALSE) @@ (n + 4) :> LPage(tabsOf[1], 1)
                     ELSE <<>>
        top == <<1>> \o (IF ch.liveNode THEN <<2>> ELSE <<>>) \o (IF ch.twin THEN <<n + 3>> ELSE <<>>)
    IN [MkTree(ownNodes @@ twinNodes,
               0 :> top @@ 1 :> kids("restorable") @@ 2 :> kids("live") @@ (n + 3) :> <<n + 4>>)
           EXCEPT !.next = n + 5]

InitStages ==
    \E ch \in StageChoices :
        /\ AtRest(StageTabsOf(ch), StageTreeOf(ch))
        /\ out = NoCall

\* rectifyAssociations() is called
StageTrigger ==
    /\ rectStarted = 0
    /\ ~rectTimer
    /\ rectTimer' = TRUE
    /\ lastEvent' = Event("trigger", NoId)
    /\ UNCHANGED <<tree, associationRuns, associationStubbornTabIds, associationConcurrentRuns,
                   nextRunId, runTimers, startQueries, newTabQueries, details, tabsGets, rect,
                   movers, asked, ticks, escalatedAt, extStarts, rectStarted>>
    /\ UnchangedHost

NextStages ==
    \/ StageTrigger
    \/ FirstRectify
    \/ RectCallbackRecorded

SpecStages == InitStages /\ [][NextStages]_vars

\* the window nodes that the step restores
RestoredIn(T, T2) ==
    {w \in DOMAIN T.n \cap DOMAIN T2.n :
        T.n[w].kind = "window" /\ T.n[w].restorable /\ ~T2.n[w].restorable}

\* The callback of the container-association stage that pipeline i waits for, the stages
\* in prohibited being those said to prohibit merging: a later association of the
\* pipeline belongs to a later stage, of four; the first two stages restore a window node
\* only as a window whose tab count is the node's count of live matching pages; a stage
\* that prohibits merging merges no window node; and the tree the callback leaves has
\* been disambiguated.
StageRuns(i, prohibited) ==
    (rect[i].pc = "associate" /\ rect'[i] # rect[i]) =>
        /\ rect[i].k \in 1..4
        /\ rect'[i].pc = "associate" => rect'[i].k > rect[i].k
        /\ rect[i].k \in {1, 2} =>
              \A w \in RestoredIn(tree, tree') :
                  Len(LiveMatching(tree, tabs, w)) = windowTabCounts(tabs, tree'.n[w].chromeId)
        /\ rect[i].k \in prohibited => rect'[i].merges = rect[i].merges
        /\ disambiguatePageNodesByWindowId(tree', {}).swaps = 0

\* C21 as stated: the stages are stringent without merging, stringent with merging,
\* relaxed without merging, relaxed with merging, each followed by a disambiguation.
C21_StagesAsStated == [][\A i \in DOMAIN rect : StageRuns(i, {1, 3})]_vars

\* C21: the stages are stringent with merging, stringent without merging, relaxed
\* without merging, relaxed with merging, each followed by a disambiguation.
C21_StagesInOrder == [][\A i \in DOMAIN rect : StageRuns(i, {2, 3})]_vars

\* The pipeline started with a restorable window node whose count of live matching pages
\* was the tab count of window W1, which had a live window node already: the nodes were
\* merged, pages were exchanged in the disambiguation, and the stages are over.
C21_Witness ==
    /\ rect[1].pc = "moveRebuild"
    /\ rect[1].merges = 1
    /\ rect[1].swaps > 0
    /\ getNodeByChromeId(rect[1].tree0, W1) # NoId
    /\ Len(LiveMatching(rect[1].tree0, tabs, 1)) = windowTabCounts(tabs, W1)

(***************************************************************************)
(* What schedules the pipeline                                             *)
(***************************************************************************)
\* a tab that has a node and reloads, next to a restorable copy of its page
ReloadedScenario == "reloaded"
LateScenarios == {LaggingScenario, ReloadedScenario}

ReloadLive == ~IsReady /\ ExtAssociateExisting

ExistingReady == (\E tid \in DOMAIN tabs : existing[tid] = "asked") /\ Ready("existingReady")

ExistingDetailReceivedLive == lastEvent.op = "existingReady" /\ ExistingDetailReceived

InitLate == \E sc \in LateScenarios : InitWith(sc, LiveStubbornTabIds(sc))

NextLate ==
    \/ ExtStartLive
    \/ StartReady
    \/ StartCallbackLive
    \/ DetailReady
    \/ DetailReceivedLive
    \/ TickReady
    \/ TickLive
    \/ FallbackReady
    \/ TabsGetCallbackLive
    \/ RectifyReady
    \/ RectTimerFireLive
    \/ StageReady
    \/ RectCallbackLive
    \/ ReloadLive
    \/ ExistingReady
    \/ ExistingDetailReceivedLive

FairnessLate ==
    /\ SF_vars(StartReady)
    /\ SF_vars(DetailReady)
    /\ SF_vars(TickReady)
    /\ SF_vars(FallbackReady)
    /\ SF_vars(RectifyReady)
    /\ SF_vars(StageReady)
    /\ SF_vars(ExistingReady)
    /\ WF_lastEvent(Ran)

SpecLate == InitLate /\ [][NextLate]_vars /\ FairnessLate

\* the step ends an association run
EndsRun == DOMAIN associationRuns \ DOMAIN associationRuns' # {}

\* the step binds tab t to a page node that was hibernated
RestoredTo(t) ==
    \E m \in DOMAIN tree.n \cap DOMAIN tree'.n :
        /\ tree.n[m].kind = "page"
        /\ tree.n[m].hibernated
        /\ ~tree'.n[m].hibernated
        /\ tree'.n[m].chromeId = t

\* the step is a callback of the kind op that binds a tab outside an active run: a detail
\* response whose run has ended, the chrome.tabs.get callback of a stubborn tab, or the
\* answer to an 'associate_existing' request
LateBy(op) ==
    \E t \in DOMAIN tabs :
        /\ lastEvent' = Event(op, t)
        /\ RestoredTo(t)
        /\ op = "detail" =>
              \E q \in details \ details' : q[1] = t /\ q[2] \notin DOMAIN associationRuns

\* a page node that associateTabToPageNode would take for tab t
Restorable(t) ==
    /\ ~Bound(tree, t)
    /\ findPageNodeForAssociation(tree, AssociationParams(tabs[t], {tabs[t].referrer},
                                                          {tabs[t].historylength})) # NoId

\* the callback that is ready is one that binds a tab outside an active run
LateDue ==
    \/ /\ lastEvent.op = "detailReady"
       /\ \A q \in details : q[2] \notin DOMAIN associationRuns /\ Restorable(q[1])
    \/ /\ lastEvent.op = "fallbackReady"
       /\ \A t \in tabsGets : Restorable(t)
    \/ /\ lastEvent.op = "existingReady"
       /\ \A t \in DOMAIN tabs :
             existing[t] = "asked" =>
                 associateExistingToRestorablePageNode(Engine, tabs, t).tree # tree

PipelineStarts == lastEvent.op = "rectify"

\* C22 as stated: the end of a run and every binding outside an active run schedule the
\* pipeline, and a scheduled pipeline is eventually executed.
C22_ScheduledByEveryTrigger ==
    /\ [][(EndsRun \/ LateBy("detail") \/ LateBy("fallback") \/ LateBy("existingDetail"))
              => rectTimer']_vars
    /\ rectTimer ~> PipelineStarts

\* C22: the end of a run and a restore of the associate-existing path schedule the
\* pipeline; a binding by a detail response or by the fallback callback of a run that has
\* ended leaves the pipeline scheduled, a run's timer armed or a start query in flight;
\* and after each of them a pipeline is eventually executed.
C22_ScheduledOrRunPending ==
    /\ [][(EndsRun \/ LateBy("existingDetail")) => rectTimer']_vars
    /\ [][(LateBy("detail") \/ LateBy("fallback"))
              => (rectTimer' \/ runTimers' # {} \/ startQueries' > 0)]_vars
    /\ rectTimer ~> PipelineStarts
    /\ LateDue ~> PipelineStarts

\* a detail response has bound a tab whose run had ended and the pipeline is not scheduled
C22_Witness ==
    /\ \E t \in DOMAIN tabs : lastEvent = Event("detail", t) /\ Bound(tree, t)
    /\ DOMAIN associationRuns = {}
    /\ ~rectTimer
    /\ startQueries > 0

(***************************************************************************)
(* The rounds of a disambiguation                                          *)
(***************************************************************************)
IterationsOf(iterations) ==
    IF iterations = {} THEN DEFAULT_DISAMBIGUATION_ITERATIONS ELSE CHOOSE k \in iterations : TRUE

\* the first round of disambiguatePageNodesByWindowId(iterations) on tree T
FirstRound(T, iterations) ==
    DisambiguateGroups([tree |-> T, swapCount |-> 0, swaps |-> 0, rounds |-> 1, missed |-> {},
                        swapped |-> {}, logged |-> {}, before |-> T],
                       T, DisambiguationKeys(T), IterationsOf(iterations))

\* C23: a call runs a second round only if its first round exchanged a pair of nodes.
C23_RerunOnlyAfterSwap ==
    [][(out.pc = "input" /\ out'.pc = "disambiguated" /\ out'.D.rounds > 1)
          => FirstRound(tree, out.iterations).swaps > 0]_vars

(***************************************************************************)
(* What a disambiguation swap changes                                      *)
(***************************************************************************)
PageNodes(T) == {m \in DOMAIN T.n : T.n[m].kind = "page"}

\* the (tab id, window id, position) triples on the page nodes
Bindings(T) == {<<T.n[m].chromeId, T.n[m].windowId, T.n[m].index>> : m \in PageNodes(T)}

\* a node without the three exchanged fields
Rest(node) == [f \in DOMAIN node \ {"chromeId", "windowId", "index"} |-> node[f]]

\* the pairs that the loop of lines 1671-1723 would exchange in tree T
SwapPairs(T) ==
    {<<item, SwapCandidates(T, DisambiguationGroup(T, FuzzyKey(T, item)), item)[1]>> :
        item \in {m \in DOMAIN T.n :
                     /\ Mismatched(T, m)
                     /\ ~AloneInGroup(T, m)
                     /\ SwapCandidates(T, DisambiguationGroup(T, FuzzyKey(T, m)), m) # <<>>}}

\* S is T with the three fields of a and b exchanged and nothing else changed
ExchangedOnly(T, S, a, b) ==
    /\ a # b
    /\ S.c = T.c
    /\ DOMAIN S.n = DOMAIN T.n
    /\ \A m \in DOMAIN T.n \ {a, b} : S.n[m] = T.n[m]
    /\ Rest(S.n[a]) = Rest(T.n[a])
    /\ Rest(S.n[b]) = Rest(T.n[b])
    /\ \A f \in {"chromeId", "windowId", "index"} : S.n[a][f] = T.n[b][f] /\ S.n[b][f] = T.n[a][f]
    /\ Bindings(S) = Bindings(T)

\* C24: a swap exchanges the window id, tab id and position of the pair and changes
\* nothing else, so the bindings in the tree are the same before and after it; a whole
\* call, made of such swaps, keeps the bindings, the other fields and the parent links.
C24_SwapExchangesThreeFields ==
    /\ [](out.pc = "input" =>
            \A p \in SwapPairs(tree) :
                ExchangedOnly(tree, SwapForDisambiguation(tree, p[1], p[2]), p[1], p[2]))
    /\ [][(out.pc = "input" /\ out'.pc = "disambiguated") =>
            /\ Bindings(tree') = Bindings(tree)
            /\ tree'.c = tree.c
            /\ \A m \in DOMAIN tree.n : Rest(tree'.n[m]) = Rest(tree.n[m])
            /\ \A m \in DOMAIN tree.n \ out'.D.logged :
                  (tree'.n[m] # tree.n[m]) => out'.D.swaps > 0]_vars

\* a call exchanged nodes of different positions and left no node mismatched
C24_Witness ==
    /\ out.pc = "disambiguated"
    /\ out.D.swaps > 0
    /\ Residue(tree) = {}
    /\ \E m \in PageNodes(tree) : tree.n[m].index # out.D.before.n[m].index

(***************************************************************************)
(* The swap partner of a mismatched node, in every tree of three live      *)
(* window nodes and MaxPartnerNodes bound page nodes of one fuzzy key      *)
(***************************************************************************)
PartnerChoices == [parent : {1, 2, 3}, windowId : {W1, W2, W3}, index : {0, 1}]

PartnerTabsOf(choice) ==
    [t \in DOMAIN choice |->
        Tab(choice[t].windowId, choice[t].index, "a", "", FALSE, FALSE, "ok", FALSE)]

\* window nodes 1, 2 and 3, and page node t + 3 bound to tab t
PartnerTreeOf(choice) ==
    LET n == Len(choice)
        pagesOf(w) == SelectSeq([i \in 1..n |-> i + 3], LAMBDA m : choice[m - 3].parent = w)
    IN [n |-> [m \in 1..(n + 3) |->
                  IF m = 1 THEN WindowNode(W1, FALSE)
                  ELSE IF m = 2 THEN WindowNode(W2, FALSE)
                  ELSE IF m = 3 THEN WindowNode(W3, FALSE)
                  ELSE LPage(PartnerTabsOf(choice)[m - 3], m - 3)],
        c |-> [m \in 0..(n + 3) |->
                  IF m = Root THEN <<1, 2, 3>> ELSE IF m \in {1, 2, 3} THEN pagesOf(m) ELSE <<>>],
        next |-> n + 4]

InitPartner ==
    \E choice \in [1..MaxPartnerNodes -> PartnerChoices] :
        /\ AtRest(PartnerTabsOf(choice), PartnerTreeOf(choice))
        /\ out = [pc |-> "input"]

\* lines 1672-1703 for one item of a group: the partners found for it, and the swap
ChoosePartner ==
    /\ out.pc = "input"
    /\ \E item \in {m \in DOMAIN tree.n : Mismatched(tree, m) /\ ~AloneInGroup(tree, m)} :
          LET items == DisambiguationGroup(tree, FuzzyKey(tree, item))
              swapWith == SwapCandidates(tree, items, item)
          IN /\ out' = [pc |-> "chosen", item |-> item, items |-> items, swapWith |-> swapWith,
                        before |-> tree]
             /\ tree' = IF swapWith = <<>> THEN tree
                        ELSE SwapForDisambiguation(tree, item, swapWith[1])
    /\ lastEvent' = Event("partner", NoId)
    /\ UNCHANGED <<tabs, associationRuns, associationStubbornTabIds, associationConcurrentRuns,
                   associationGetDetailsRetryList, nextRunId, runTimers, rectTimer, startQueries,
                   newTabQueries, details, tabsGets, rect, movers, existing, asked, ticks,
                   escalatedAt, extStarts, rectStarted>>

NextPartner == ChoosePartner

SpecPartner == InitPartner /\ [][NextPartner]_vars

LiveIdOfParent(T, e) == T.n[topParent(T, e)].chromeId

\* the members of the group of item that record the window item sits under
RecordingMine(T, items, item) ==
    {e \in SeqRange(items) \ {item} : T.n[e].windowId = LiveIdOfParent(T, item)}

\* those of them that sit under the window item records
Reciprocal(T, items, item) ==
    {e \in RecordingMine(T, items, item) : LiveIdOfParent(T, e) = T.n[item].windowId}

ReciprocalAtIndex(T, items, item) ==
    {e \in Reciprocal(T, items, item) : T.n[e].index = T.n[item].index}

\* the members that sit under the window item records
SittingInMine(T, items, item) ==
    {e \in SeqRange(items) \ {item} : LiveIdOfParent(T, e) = T.n[item].windowId}

\* the partner is taken from the first of the given sets that is not empty, and there is
\* none when all are empty
PartnerByPriority(sets) ==
    LET first == {i \in DOMAIN sets : sets[i] # {} /\ \A j \in 1..(i - 1) : sets[j] = {}}
    IN IF first = {} THEN out.swapWith = <<>>
       ELSE out.swapWith # <<>> /\ \A i \in first : out.swapWith[1] \in sets[i]

\* C25 as stated: the partner is a reciprocal one of equal position, else a reciprocal
\* one, else a member that records the window this node sits under.
C25_ThreePreferences ==
    out.pc = "chosen" =>
        LET T == out.before IN
        \/ ReciprocalAtIndex(T, out.items, out.item) = {}
              /\ Reciprocal(T, out.items, out.item) = {}
              /\ RecordingMine(T, out.items, out.item) = {}
        \/ PartnerByPriority(<<ReciprocalAtIndex(T, out.items, out.item),
                               Reciprocal(T, out.items, out.item),
                               RecordingMine(T, out.items, out.item)>>)

\* C25: the partner is a reciprocal one of equal position, else a reciprocal one, else
\* a member that sits under the window this node records, else a member that records
\* the window this node sits under; there is none only when there is no such member.
C25_FourPreferences ==
    out.pc = "chosen" =>
        LET T == out.before IN
        PartnerByPriority(<<ReciprocalAtIndex(T, out.items, out.item),
                            Reciprocal(T, out.items, out.item),
                            SittingInMine(T, out.items, out.item),
                            RecordingMine(T, out.items, out.item)>>)

\* no reciprocal partner, a member under the window the node records and another that
\* records the window the node sits under: the former was taken
C25_Witness ==
    /\ out.pc = "chosen"
    /\ Reciprocal(out.before, out.items, out.item) = {}
    /\ SittingInMine(out.before, out.items, out.item) # {}
    /\ RecordingMine(out.before, out.items, out.item) # {}
    /\ out.swapWith[1] \in SittingInMine(out.before, out.items, out.item)

(***************************************************************************)
(* The nodes a disambiguation round leaves alone                           *)
(***************************************************************************)
\* the mismatched nodes of the fuzzy key of e
MismatchedPeers(T, e) == {m \in DOMAIN T.n : Mismatched(T, m) /\ FuzzyKey(T, m) = FuzzyKey(T, e)}

\* e is under its window, or is the only mismatched node of its key
OutsideGroups(T, e) ==
    /\ T.n[e].kind = "page"
    /\ ~Mismatched(T, e) \/ MismatchedPeers(T, e) = {e}

\* C26: a round changes no node that was under its window as the round began and no
\* node that was the only mismatched one of its key; neither does a whole call.
C26_OnlyGroupMembersChange ==
    /\ [](out.pc = "input" =>
            \A e \in DOMAIN tree.n :
                OutsideGroups(tree, e) => FirstRound(tree, out.iterations).tree.n[e] = tree.n[e])
    /\ [][(out.pc = "input" /\ out'.pc = "disambiguated") =>
            \A e \in DOMAIN tree.n : OutsideGroups(tree, e) => tree'.n[e] = tree.n[e]]_vars

\* a call of one round exchanged two nodes next to a node that was alone with its key
C26_Witness ==
    /\ out.pc = "disambiguated"
    /\ out.D.rounds = 1
    /\ out.D.swaps = 1
    /\ \E e \in DOMAIN tree.n : Mismatched(out.D.before, e) /\ MismatchedPeers(out.D.before, e) = {e}

(***************************************************************************)
(* tryFastAssociateTab applied on its own: one tab of window W1 and every  *)
(* tree of two window nodes, the first one hibernated or bound to W1, and  *)
(* MaxFastNodes page nodes                                                 *)
(***************************************************************************)
FastUrls == {"a", "file"}
\* the one tab of these sessions
FastTab == CHOOSE t \in DOMAIN tabs : TRUE

FastPageChoices ==
    [parent : {1, 2}, index : {0, 1}, url : FastUrls, state : {"restorable", "hibernated", "live"}]

FastChoices ==
    [pages : [1..MaxFastNodes -> FastPageChoices], liveWindow : BOOLEAN,
     index : {0, 1}, url : FastUrls, mustBeRestorable : BOOLEAN]

FastTabsOf(ch) == 1 :> Tab(W1, ch.index, ch.url, "", FALSE, FALSE, "ok", FALSE)

\* page node m + 2 is made from pages[m]; a live one is bound to tab m + 1 of window W1
FastPageOf(pc, m) ==
    LET h == HPage(pc.index, pc.url, "", FALSE) IN
    IF pc.state = "restorable" THEN h
    ELSE IF pc.state = "hibernated" THEN [h EXCEPT !.restorable = FALSE]
    ELSE [h EXCEPT !.restorable = FALSE, !.hibernated = FALSE, !.chromeId = m + 1,
                   !.windowId = W1]

FastTreeOf(ch) ==
    LET n == Len(ch.pages)
        pagesOf(w) == SelectSeq([i \in 1..n |-> i + 2], LAMBDA m : ch.pages[m - 2].parent = w)
    IN [n |-> [m \in 1..(n + 2) |->
                  IF m = 1 THEN (IF ch.liveWindow THEN WindowNode(W1, FALSE) ELSE HWindow)
                  ELSE IF m = 2 THEN HWindow
                  ELSE FastPageOf(ch.pages[m - 2], m - 2)],
        c |-> [m \in 0..(n + 2) |->
                  IF m = Root THEN <<1, 2>> ELSE IF m \in {1, 2} THEN pagesOf(m) ELSE <<>>],
        next |-> n + 3]

InitFast ==
    \E ch \in FastChoices :
        /\ AtRest(FastTabsOf(ch), FastTreeOf(ch))
        /\ out = [pc |-> "input", mustBeRestorable |-> ch.mustBeRestorable]

FastAssociate ==
    /\ out.pc = "input"
    /\ tree' = tryFastAssociateTab(tree, tabs[FastTab], FastTab, out.mustBeRestorable)
    /\ out' = [pc |-> "matched", mustBeRestorable |-> out.mustBeRestorable, before |-> tree]
    /\ lastEvent' = Event("fast", FastTab)
    /\ UNCHANGED <<tabs, associationRuns, associationStubbornTabIds, associationConcurrentRuns,
                   associationGetDetailsRetryList, nextRunId, runTimers, rectTimer, startQueries,
                   newTabQueries, details, tabsGets, rect, movers, existing, asked, ticks,
                   escalatedAt, extStarts, rectStarted>>

NextFast == FastAssociate

SpecFast == InitFast /\ [][NextFast]_vars

\* the page nodes of the set scope that are hibernated, restorable when required, and
\* equal to the tab on url, position, incognito and pinned
FastCandidates(T, tab, mustBeRestorable, scope) ==
    {e \in scope :
        /\ T.n[e].kind = "page"
        /\ T.n[e].hibernated
        /\ mustBeRestorable => T.n[e].restorable
        /\ T.n[e].url = tab.url
        /\ T.n[e].index = tab.index
        /\ T.n[e].incognito = tab.incognito
        /\ T.n[e].pinned = tab.pinned}

\* the nodes under the window node bound to the tab's window when there is one, and
\* all nodes otherwise
FastScope(T, tab) ==
    IF getNodeByChromeId(T, tab.windowId) # NoId
    THEN Descendants(T, getNodeByChromeId(T, tab.windowId))
    ELSE DOMAIN T.n

FirstInTree(T, S) == CHOOSE e \in S : \A f \in S : IndexOf(AllNodes(T), e) <= IndexOf(AllNodes(T), f)

\* what the call did, C being the candidates: it bound the tab exactly when there was
\* one candidate, or several and a url that is not scriptable; it bound to the one
\* candidate or to the first one; and otherwise it left the tree as it was
FastMatchedAmong(C) ==
    LET tab == tabs[FastTab]
        binds == Cardinality(C) = 1 \/ (Cardinality(C) > 1 /\ ~isScriptableUrl(tab.url))
    IN /\ binds <=> Bound(tree, FastTab)
       /\ binds => getNodeByChromeId(tree, FastTab) = FirstInTree(out.before, C)
       /\ ~binds => tree = out.before

\* C27 as stated: the candidates are the matching page nodes of the tree.
C27_FastMatchTreeWide ==
    out.pc = "matched" =>
        FastMatchedAmong(FastCandidates(out.before, tabs[FastTab], out.mustBeRestorable,
                                        DOMAIN out.before.n))

\* C27: the candidates are the matching page nodes under the window node bound to the
\* tab's window when there is such a node, and those of the whole tree otherwise.
C27_FastMatchInScope ==
    out.pc = "matched" =>
        FastMatchedAmong(FastCandidates(out.before, tabs[FastTab], out.mustBeRestorable,
                                        FastScope(out.before, tabs[FastTab])))

\* the tab's window has a node, two nodes of the tree match a scriptable tab, one of them
\* under that window node: the tab was bound to it
C27_Witness ==
    /\ out.pc = "matched"
    /\ isScriptableUrl(tabs[FastTab].url)
    /\ getNodeByChromeId(out.before, W1) # NoId
    /\ Cardinality(FastCandidates(out.before, tabs[FastTab], out.mustBeRestorable,
                                  DOMAIN out.before.n)) = 2
    /\ Bound(tree, FastTab)

(***************************************************************************)
(* The node taken by the fallback and by the blind binding                 *)
(***************************************************************************)
\* the hibernated page nodes that the step binds to tab t
RestoredNodes(t) ==
    {m \in DOMAIN tree.n \cap DOMAIN tree'.n :
        /\ tree.n[m].kind = "page"
        /\ tree.n[m].hibernated
        /\ ~tree'.n[m].hibernated
        /\ tree'.n[m].chromeId = t}

\* the step is the chrome.tabs.get callback of stubborn tab t, or the enumeration of a
\* run, which binds a tab t of a url that is not scriptable by position or blindly
WithoutDetails(t) ==
    \/ lastEvent' = Event("fallback", t)
    \/ lastEvent'.op = "enumerate" /\ ~isScriptableUrl(tabs[t].url)

EqualOn(fields, node, tab) == \A f \in fields : node[f] = tab[f]

MatchReferrers == {"", "r1", "r2", "gb1", "gb2"}
MatchUrls == {"a", "b"}

\* the criteria: an omitted one is {}
MatchCriteria ==
    [referrer : {{}} \cup {{r} : r \in MatchReferrers},
     pinned : {{}, {TRUE}, {FALSE}},
     topParentMustBeRealOrRestorableWindow : BOOLEAN]

MatchChoices ==
    [url : MatchUrls, referrer : MatchReferrers, pinned : BOOLEAN, restorableWindow : BOOLEAN,
     criteria : MatchCriteria]

MatchParamsOf(criteria) ==
    [NoParams EXCEPT !.mustBeHibernated = TRUE, !.mustBeRestorable = TRUE,
                     !.topParentMustBeRealOrRestorableWindow =
                         criteria.topParentMustBeRealOrRestorableWindow,
                     !.url = "a", !.referrer = criteria.referrer, !.pinned = criteria.pinned,
                     !.incognito = {FALSE}]

\* the page node of these trees
MatchPage == CHOOSE m \in DOMAIN tree.n : tree.n[m].kind = "page"

MatchTreeOf(ch) ==
    MkTree(1 :> [HWindow EXCEPT !.restorable = ch.restorableWindow]
           @@ 2 :> HPage(0, ch.url, ch.referrer, ch.pinned),
           0 :> <<1>> @@ 1 :> <<2>>)

InitMatch ==
    \E ch \in MatchChoices :
        /\ AtRest(<<>>, MatchTreeOf(ch))
        /\ out = [pc |-> "input", params |-> MatchParamsOf(ch.criteria)]

Found(T, params) == findPageNodeForAssociation(T, params) # NoId

FindPageNode ==
    /\ out.pc = "input"
    /\ out' = [pc |-> "tested", params |-> out.params, result |-> Found(tree, out.params)]
    /\ lastEvent' = Event("find", NoId)
    /\ UNCHANGED <<tabs, tree, associationRuns, associationStubbornTabIds,
                   associationConcurrentRuns, associationGetDetailsRetryList, nextRunId,
                   runTimers, rectTimer, startQueries, newTabQueries, details, tabsGets, rect,
                   movers, existing, asked, ticks, escalatedAt, extStarts, rectStarted>>

NextMatch == FindPageNode

SpecMatch == InitMatch /\ [][NextMatch]_vars

BothPinned == out.params.pinned = {TRUE} /\ tree.n[MatchPage].pinned

\* the same search with other referrers on both sides
FoundWithReferrers(criterion, nodeReferrer) ==
    Found([tree EXCEPT !.n[MatchPage].referrer = nodeReferrer],
          [out.params EXCEPT !.referrer = criterion])

\* C29: when the criteria and the node are both pinned, the result of the match is the
\* same for every referrer criterion, omitted or not, and every referrer of the node.
C29_PinnedIgnoresReferrer ==
    (out.pc = "tested" /\ BothPinned) =>
        \A criterion \in {{}} \cup {{r} : r \in MatchReferrers}, nodeReferrer \in MatchReferrers :
            FoundWithReferrers(criterion, nodeReferrer) = out.result

\* a pinned node was found for pinned criteria although the two referrers are different
\* and neither is blankable
C29_Witness ==
    /\ out.pc = "tested"
    /\ BothPinned
    /\ out.params.referrer = {"r1"}
    /\ tree.n[MatchPage].referrer = "r2"
    /\ out.result

\* C30: when the criteria and the node are not both pinned, a node that meets the other
\* criteria is found exactly when the referrer criterion is omitted or the two
\* referrers are equal once each blankable one is replaced by the empty string: a
\* blankable referrer matches the empty and every blankable one, and two referrers that
\* are not blankable match only when equal.
C30_BlankableReferrers ==
    (out.pc = "tested" /\ ~BothPinned) =>
        LET node == tree.n[MatchPage].referrer
            others == FoundWithReferrers({}, node)
        IN /\ out.params.referrer = {} => out.result = others
           /\ \A r \in out.params.referrer :
                 /\ out.result = (others /\ Blanked(r) = Blanked(node))
                 /\ (IsBlankableReferrer(r) /\ (node = "" \/ IsBlankableReferrer(node)))
                       => out.result = others
                 /\ (IsBlankableReferrer(node) /\ (r = "" \/ IsBlankableReferrer(r)))
                       => out.result = others
                 /\ (~IsBlankableReferrer(r) /\ ~IsBlankableReferrer(node))
                       => out.result = (others /\ r = node)

\* a node that is not pinned was found for a blankable referrer criterion different from
\* its own blankable referrer
C30_Witness ==
    /\ out.pc = "tested"
    /\ ~tree.n[MatchPage].pinned
    /\ out.params.referrer = {"gb1"}
    /\ tree.n[MatchPage].referrer = "gb2"
    /\ out.result

(***************************************************************************)
(* The answer to an 'associate' detail request and the fallback of a       *)
(* stubborn tab, applied to a tree with one window node and one page node, *)
(* next to a live window node or not, in a run in progress or after the    *)
(* run has ended                                                           *)
(***************************************************************************)
ArriveWindows == {"live", "elsewhere", "restorable", "closed"}
ArrivePages == {"restorable", "hibernated", "bound", "other"}

\* a hibernated window node holds hibernated pages only; a second window node, live and
\* bound to the window of the tabs, stands next to a hibernated one only; the fallback
\* is requested by the tick that ends its run (lines 1272-1284)
ArriveChoices ==
    {ch \in [window : ArriveWindows, page : ArrivePages, url : {"a", "b"},
             referrer : {"r1", "r2"}, beside : BOOLEAN, run : {1, EndedRun},
             via : {"detail", "fallback"}] :
        /\ ch.window \in {"restorable", "closed"} => ch.page \in {"restorable", "hibernated"}
        /\ ch.beside => ch.window \in {"restorable", "closed"}
        /\ ch.via = "fallback" => ch.run = EndedRun}

ArriveTabs ==
    1 :> Tab(W1, 0, "a", "r1", FALSE, FALSE, "ok", FALSE)
    @@ 2 :> Tab(W1, 1, "b", "", FALSE, FALSE, "ok", FALSE)

ArriveWindowOf(ch) ==
    CASE ch.window = "live" -> WindowNode(W1, FALSE)
      [] ch.window = "elsewhere" -> WindowNode(W2, FALSE)
      [] ch.window = "restorable" -> HWindow
      [] OTHER -> [HWindow EXCEPT !.restorable = FALSE]

ArrivePageOf(ch) ==
    CASE ch.page = "restorable" -> HPage(0, ch.url, ch.referrer, FALSE)
      [] ch.page = "hibernated" -> [HPage(0, ch.url, ch.referrer, FALSE) EXCEPT !.restorable = FALSE]
      [] ch.page = "bound" -> LPage(ArriveTabs[1], 1)
      [] OTHER -> LPage(ArriveTabs[2], 2)

ArriveTreeOf(ch) ==
    IF ch.beside
    THEN MkTree(1 :> ArriveWindowOf(ch) @@ 2 :> ArrivePageOf(ch)
                @@ 3 :> WindowNode(W1, FALSE) @@ 4 :> LPage(ArriveTabs[2], 2),
                0 :> <<1, 3>> @@ 1 :> <<2>> @@ 3 :> <<4>>)
    ELSE MkTree(1 :> ArriveWindowOf(ch) @@ 2 :> ArrivePageOf(ch), 0 :> <<1>> @@ 1 :> <<2>>)

\* tab 1 was asked for its details by run 1, which is in progress or has ended, or is
\* stubborn and was asked from the host by the last tick of run 1
InitArrive ==
    \E ch \in ArriveChoices :
        /\ tabs = ArriveTabs
        /\ tree = ArriveTreeOf(ch)
        /\ associationRuns = IF ch.run = EndedRun THEN [r \in {} |-> r]
                             ELSE 1 :> [total |-> 2, count |-> 1, tabIds |-> <<1>>]
        /\ associationStubbornTabIds = IF ch.run = EndedRun THEN [t \in {} |-> 0] ELSE 1 :> 1
        /\ associationConcurrentRuns = IF ch.run = EndedRun THEN 0 ELSE 1
        /\ associationGetDetailsRetryList = [t \in {} |-> 0]
        /\ nextRunId = 2
        /\ runTimers = IF ch.run = EndedRun THEN {} ELSE {1}
        /\ rectTimer = (ch.run = EndedRun)
        /\ startQueries = 0
        /\ newTabQueries = {}
        /\ details = IF ch.via = "detail" THEN {<<1, ch.run>>} ELSE {}
        /\ tabsGets = IF ch.via = "fallback" THEN {1} ELSE {}
        /\ rect = [i \in 1..MaxRectInstances |-> Idle]
        /\ movers = {}
        /\ existing = [t \in DOMAIN ArriveTabs |-> "none"]
        /\ asked = {1}
        /\ ticks = [t \in DOMAIN ArriveTabs |-> IF t = 1 THEN 1 ELSE 0]
        /\ escalatedAt = [t \in DOMAIN ArriveTabs |-> {}]
        /\ extStarts = 1
        /\ rectStarted = 0
        /\ lastEvent = Event("tick", NoId)
        /\ out = [pc |-> "input"]

\* the answer of a tab to an 'associate' detail request, with the tree it found
DetailArrives ==
    \E q \in details :
        LET tid == q[1]
            E0 == [Engine EXCEPT !.details = @ \ {q}]
        IN /\ SetEngine(associateTabToPageNode(E0, tabs, q[2], tid,
                                               {tabs[tid].referrer}, {tabs[tid].historylength}))
           /\ lastEvent' = Event("detail", tid)
           /\ out' = [pc |-> "bound", tab |-> tid, runId |-> q[2], before |-> tree,
                      runs |-> associationRuns]
           /\ UNCHANGED <<tabs, associationGetDetailsRetryList, existing, rect, rectStarted,
                          extStarts>>

\* the chrome.tabs.get callback of a stubborn tab, with the tree it found
FallbackArrives ==
    \E tid \in tabsGets :
        /\ SetEngine(associateTabToPageNode([Engine EXCEPT !.tabsGets = @ \ {tid}], tabs, EndedRun,
                                            tid, {}, {}))
        /\ lastEvent' = Event("fallback", tid)
        /\ out' = [pc |-> "fallen", tab |-> tid, runId |-> EndedRun, before |-> tree,
                   runs |-> associationRuns]
        /\ UNCHANGED <<tabs, associationGetDetailsRetryList, existing, rect, rectStarted,
                       extStarts>>

NextArrive == DetailArrives \/ FallbackArrives

SpecArrive == InitArrive /\ [][NextArrive]_vars

\* the nodes of tree T that the criteria of an arrival of tab t select: hibernated,
\* restorable page nodes under a window node that is live or restorable, equal to the
\* tab on url, pinned, incognito and history length, with a referrer that agrees
ArrivalCandidates(T, t) ==
    {m \in DOMAIN T.n :
        /\ T.n[m].kind = "page"
        /\ T.n[m].hibernated
        /\ T.n[m].restorable
        /\ isWindow(T, topParent(T, m))
        /\ ~T.n[topParent(T, m)].hibernated \/ T.n[topParent(T, m)].restorable
        /\ T.n[m].url = tabs[t].url
        /\ T.n[m].pinned = tabs[t].pinned
        /\ T.n[m].incognito = tabs[t].incognito
        /\ T.n[m].historylength = tabs[t].historylength
        /\ \/ T.n[m].referrer = tabs[t].referrer
           \/ Blanked(T.n[m].referrer) = Blanked(tabs[t].referrer)}

\* node m of the tree before is bound to tab t as a restore does it
RestoreBound(m, t) ==
    /\ m \in DOMAIN tree.n
    /\ tree.n[m].chromeId = t
    /\ ~tree.n[m].hibernated
    /\ ~tree.n[m].restorable
    /\ tree.n[m].windowId = tabs[t].windowId
    /\ tree.n[m].index = tabs[t].index
    /\ tree.n[m].pinned = tabs[t].pinned

\* a node that the tree before did not have is bound to tab t, under the window node
\* bound to the window of the tab, and every node of the tree before is as it was
FreshBound(B, t) ==
    /\ \E m \in DOMAIN tree.n \ DOMAIN B.n :
          /\ tree.n[m].kind = "page"
          /\ tree.n[m].chromeId = t
          /\ ~tree.n[m].hibernated
          /\ isWindow(tree, ParentOf(tree, m))
          /\ tree.n[ParentOf(tree, m)].chromeId = tabs[t].windowId
          /\ ~tree.n[ParentOf(tree, m)].hibernated
    /\ \A m \in DOMAIN B.n : m \in DOMAIN tree.n /\ tree.n[m] = B.n[m]

\* the nodes of tree T bound to id
NodesBoundTo(T, id) == {m \in DOMAIN T.n : T.n[m].chromeId = id}

\* apart from the nodes in except, the page nodes of the tree before are in the tree and
\* bound as they were, and so is every window node that is still in the tree
BindingsKept(B, except) ==
    \A m \in DOMAIN B.n \ except :
        /\ B.n[m].kind = "page" => m \in DOMAIN tree.n
        /\ m \in DOMAIN tree.n => tree.n[m].chromeId = B.n[m].chromeId

Arrived == out.pc \in {"bound", "fallen"}

\* C40: when the details or the fallback of a tab arrive and a node is bound to the tab
\* already, the tree is left as it was, in a run in progress and after the run has ended.
C40_BoundTabLeavesTree ==
    (Arrived /\ Bound(out.before, out.tab)) => tree = out.before

\* the details of a tab that has a node arrived while the run was in progress
C40_Witness ==
    /\ out.pc = "bound"
    /\ Bound(out.before, out.tab)
    /\ out.runId \in DOMAIN out.runs
    /\ tree = out.before

(***************************************************************************)
(* Requests to associate a tab that has a node, one after the other, while *)
(* the port of the tab comes and goes and its node is removed and made     *)
(* again                                                                   *)
(***************************************************************************)
MaxRequests == 2
MaxRetryNodeId == 4

RetryTab == CHOOSE t \in DOMAIN tabs : TRUE

\* a live window node with the page of the tab and a restorable copy of it
RetryTree ==
    MkTree(1 :> WindowNode(W1, FALSE)
           @@ 2 :> LPage(Tab(W1, 0, "a", "", FALSE, FALSE, "none", TRUE), 1)
           @@ 3 :> HPage(1, "a", "", FALSE),
           0 :> <<1>> @@ 1 :> <<2, 3>>)

InitRetry ==
    /\ AtRest(1 :> Tab(W1, 0, "a", "", FALSE, FALSE, "none", TRUE), RetryTree)
    /\ out = [pc |-> "idle", made |-> 0, scheduled |-> 0, page |-> NoId]

UnchangedByRequest ==
    UNCHANGED <<tabs, tree, associationRuns, associationStubbornTabIds, associationConcurrentRuns,
                nextRunId, runTimers, rectTimer, startQueries, newTabQueries, details, tabsGets,
                rect, movers, asked, ticks, escalatedAt, extStarts, rectStarted>>

UnchangedByHost ==
    UNCHANGED <<associationRuns, associationStubbornTabIds, associationConcurrentRuns,
                associationGetDetailsRetryList, nextRunId, runTimers, rectTimer, startQueries,
                newTabQueries, details, tabsGets, rect, movers, existing, asked, ticks,
                escalatedAt, extStarts, rectStarted, out>>

\* a request for the page of the tab, made when no retry of an earlier one is pending
RequestExisting ==
    LET page == getNodeByChromeId(tree, RetryTab)
    IN /\ existing[RetryTab] # "retry"
       /\ out.made < MaxRequests
       /\ page # NoId
       /\ TryExistingPage(RetryTab, page)
       /\ out' = [pc |-> "requested", made |-> out.made + 1, page |-> page,
                  scheduled |-> IF ExistingOutcome(RetryTab, page) = "retry" THEN 1 ELSE 0]
       /\ lastEvent' = Event("reload", RetryTab)
       /\ UnchangedByRequest

\* the retry timer of lines 1150-1152, for the page the request was made for
RetryFires ==
    /\ existing[RetryTab] = "retry"
    /\ TryExistingPage(RetryTab, out.page)
    /\ out' = [out EXCEPT !.pc = "retried",
                          !.scheduled = IF ExistingOutcome(RetryTab, out.page) = "retry"
                                        THEN @ + 1 ELSE @]
    /\ lastEvent' = Event("retry", RetryTab)
    /\ UnchangedByRequest

\* the content script of the tab connects its port, or the port is closed
PortChanges ==
    /\ tabs' = [tabs EXCEPT ![RetryTab].port = IF @ = "none" THEN "ok" ELSE "none"]
    /\ lastEvent' = Event("port", RetryTab)
    /\ UNCHANGED tree
    /\ UnchangedByHost

\* the node of the tab is removed from the tree
NodeRemoved ==
    /\ getNodeByChromeId(tree, RetryTab) # NoId
    /\ tree' = removeNode(tree, getNodeByChromeId(tree, RetryTab))
    /\ lastEvent' = Event("removed", RetryTab)
    /\ UNCHANGED tabs
    /\ UnchangedByHost

\* a node is made for the tab, which has none
NodeAdded ==
    /\ getNodeByChromeId(tree, RetryTab) = NoId
    /\ tree.next <= MaxRetryNodeId
    /\ tree' = addTabToWindow(tree, tabs[RetryTab], RetryTab, NoId)
    /\ lastEvent' = Event("added", RetryTab)
    /\ UNCHANGED tabs
    /\ UnchangedByHost

NextRetry == RequestExisting \/ RetryFires \/ PortChanges \/ NodeRemoved \/ NodeAdded

SpecRetry == InitRetry /\ [][NextRetry]_vars

\* a timer that was set fires
SpecRetryLive == SpecRetry /\ WF_vars(RetryFires)

Tries(t) ==
    IF t \in DOMAIN associationGetDetailsRetryList THEN associationGetDetailsRetryList[t] ELSE 0

\* the call of the step found the retries exhausted
Exhausted == existing[RetryTab] = "retry" /\ existing'[RetryTab] = "abandoned"

\* C32: a request schedules at most ASSOCIATE_GET_DETAILS_MAX_RETRIES retries, the count
\* of a tab is never above that number, the call that finds the retries exhausted deletes
\* the entry of the tab, schedules no retry and leaves the tree as it is, and a request
\* that waits for a retry comes to an end.
C32_RetriesBounded ==
    /\ [](/\ out.scheduled <= ASSOCIATE_GET_DETAILS_MAX_RETRIES
          /\ Tries(RetryTab) <= ASSOCIATE_GET_DETAILS_MAX_RETRIES)
    /\ [][Exhausted => /\ Tries(RetryTab) = ASSOCIATE_GET_DETAILS_MAX_RETRIES
                       /\ RetryTab \notin DOMAIN associationGetDetailsRetryList'
                       /\ out'.scheduled = out.scheduled
                       /\ tree' = tree]_vars
    /\ (existing[RetryTab] = "retry") ~> (existing[RetryTab] # "retry")

\* the retries of a request are exhausted after as many retries as allowed; the
\* restorable copy of the page is hibernated as before
C32_Witness ==
    /\ existing[RetryTab] = "abandoned"
    /\ out.scheduled = ASSOCIATE_GET_DETAILS_MAX_RETRIES
    /\ RetryTab \notin DOMAIN associationGetDetailsRetryList
    /\ \E m \in DOMAIN tree.n : tree.n[m].hibernated /\ tree.n[m].restorable

(***************************************************************************)
(* The retry count of a tab once its request is over                       *)
(***************************************************************************)
\* the request was dispatched, answered or not, its retries were exhausted, or its page
\* was no longer in the tree
RequestOver == existing[RetryTab] \in {"asked", "lost", "abandoned", "gone"}

\* C39: once a request is over the tab has no entry in associationGetDetailsRetryList,
\* and the first retry that a request schedules is counted as the first.
C39_EntryRemovedWhenOver ==
    /\ RequestOver => RetryTab \notin DOMAIN associationGetDetailsRetryList
    /\ (out.pc = "requested" /\ existing[RetryTab] = "retry") => Tries(RetryTab) = 1

(***************************************************************************)
(* A tab whose port does not exist when a run asks for its details         *)
(***************************************************************************)
\* tab t has a scriptable url and no port, and the step is the enumeration of a run that
\* neither finds nor leaves a node bound to it
AskedWithoutPort(t) ==
    /\ lastEvent'.op = "enumerate"
    /\ ~PortExists(tabs[t])
    /\ isScriptableUrl(tabs[t].url)
    /\ ~tabs[t].incognito
    /\ ~Bound(tree, t)
    /\ ~Bound(tree', t)

\* the run that the step ends with a tick has tab t in its pending list
TickedPending(t) ==
    /\ lastEvent'.op = "tick"
    /\ \E r \in DOMAIN associationRuns \ DOMAIN associationRuns' :
          t \in SeqRange(associationRuns[r].tabIds)

StubbornCount(table, t) == IF t \in DOMAIN table THEN table[t] ELSE 0

\* C33: a tab whose port does not exist when the run asks for its details is in the
\* pending list of the run and counted in its total, and the timer of the run is armed;
\* at the tick of the run the stubborn count of the tab is raised, or the fallback is
\* requested when the count reaches the threshold.
C33_PortlessTabStaysPending ==
    [][\A t \in DOMAIN tabs :
          /\ AskedWithoutPort(t) =>
                /\ nextRunId \in DOMAIN associationRuns'
                /\ t \in SeqRange(associationRuns'[nextRunId].tabIds)
                /\ associationRuns'[nextRunId].total >= Len(associationRuns'[nextRunId].tabIds)
                /\ nextRunId \in runTimers'
                /\ t \in asked'
          /\ (TickedPending(t) /\ ~PortExists(tabs[t])) =>
                IF IsStubborn(StubbornCount(associationStubbornTabIds, t) + 1)
                THEN t \in tabsGets'
                ELSE StubbornCount(associationStubbornTabIds', t)
                         = StubbornCount(associationStubbornTabIds, t) + 1]_vars

\* the run just enumerated has a tab without a port in its pending list, and its timer
\* is armed
C33_Witness ==
    /\ lastEvent.op = "enumerate"
    /\ \E r \in DOMAIN associationRuns \cap runTimers :
          \E t \in SeqRange(associationRuns[r].tabIds) :
              /\ ~PortExists(tabs[t])
              /\ associationRuns[r].total >= 1
              /\ ~Bound(tree, t)

(***************************************************************************)
(* One pass of associateWindowstoWindowNodes over two restorable window    *)
(* nodes that hold pages bound to the tabs of window W1, the first of them *)
(* with or without a page of a tab of window W2, next to a live node of    *)
(* window W1 or not                                                        *)
(***************************************************************************)
MaxScore == 10

WindowChoices ==
    {ch \in [inFirst : 0..MaxScore, inSecond : 0..MaxScore, away : BOOLEAN, owned : BOOLEAN,
             aligned : BOOLEAN, require : BOOLEAN, prohibit : BOOLEAN] :
        ch.inFirst + ch.inSecond >= 1}

\* the tabs: those of the pages of the first node, those of the second, the one of window
\* W2 and the one of the live node of window W1
WindowTabsOf(ch) ==
    LET shared == ch.inFirst + ch.inSecond
        count == shared + (IF ch.away THEN 1 ELSE 0) + (IF ch.owned THEN 1 ELSE 0)
    IN [t \in 1..count |->
          IF ch.away /\ t = shared + 1 THEN Tab(W2, 0, "a", "", FALSE, FALSE, "ok", FALSE)
          ELSE Tab(W1, IF t <= shared THEN t - 1 ELSE shared, "a", "", FALSE, FALSE, "ok", FALSE)]

\* nodes 1 and 2 are the restorable window nodes, node 3 the live one, node 3 + t the page
\* of tab t, at the position of its tab or one further
WindowTreeOf(ch) ==
    LET tabsOf == WindowTabsOf(ch)
        shared == ch.inFirst + ch.inSecond
        pageOf(t) == [LPage(tabsOf[t], t) EXCEPT !.index = IF ch.aligned THEN @ ELSE @ + 1]
        firstKids == [i \in 1..ch.inFirst |-> 3 + i]
                     \o (IF ch.away THEN <<3 + shared + 1>> ELSE <<>>)
        secondKids == [i \in 1..ch.inSecond |-> 3 + ch.inFirst + i]
    IN [n |-> [m \in ({1, 2} \cup (IF ch.owned THEN {3} ELSE {})
                      \cup {3 + t : t \in DOMAIN tabsOf}) |->
                  IF m \in {1, 2} THEN HWindow
                  ELSE IF m = 3 THEN WindowNode(W1, FALSE)
                  ELSE pageOf(m - 3)],
        c |-> [m \in ({0, 1, 2} \cup (IF ch.owned THEN {3} ELSE {})
                      \cup {3 + t : t \in DOMAIN tabsOf}) |->
                  IF m = 0 THEN (IF ch.owned THEN <<1, 2, 3>> ELSE <<1, 2>>)
                  ELSE IF m = 1 THEN firstKids
                  ELSE IF m = 2 THEN secondKids
                  ELSE IF m = 3 THEN <<3 + Len(tabsOf)>>
                  ELSE <<>>],
        next |-> 4 + Len(tabsOf)]

InitWindows ==
    \E ch \in WindowChoices :
        /\ AtRest(WindowTabsOf(ch), WindowTreeOf(ch))
        /\ out = [pc |-> "input", require |-> ch.require, prohibit |-> ch.prohibit]

\* the chrome.tabs.query callback of associateWindowstoWindowNodes
AssociateWindows ==
    /\ out.pc = "input"
    /\ LET A == associateWindowstoWindowNodes(tree, tabs, RestorableWindows(tree),
                                              out.require, out.prohibit)
       IN /\ tree' = A.tree
          /\ out' = [pc |-> "associated", require |-> out.require, prohibit |-> out.prohibit,
                     before |-> tree, usedWindowIds |-> A.usedWindowIds,
                     usedWindowNodes |-> A.usedWindowNodes, merges |-> A.merges]
    /\ lastEvent' = Event("associate", NoId)
    /\ UNCHANGED <<tabs, associationRuns, associationStubbornTabIds, associationConcurrentRuns,
                   associationGetDetailsRetryList, nextRunId, runTimers, rectTimer, startQueries,
                   newTabQueries, details, tabsGets, rect, movers, existing, asked, ticks,
                   escalatedAt, extStarts, rectStarted>>

NextWindows == AssociateWindows

SpecWindows == InitWindows /\ [][NextWindows]_vars

(***************************************************************************)
(* What one pass assigns                                                   *)
(***************************************************************************)
\* the window nodes that the pass restored
RestoredByPass == RestoredIn(out.before, tree)

\* C34: in one pass no window id is given to two window nodes and no window node is given
\* two window ids: the nodes restored are bound to different ids, the ids used, the nodes
\* used and the nodes restored are equal in number, and a restorable window node that the
\* pass did not restore is as it was.
C34_OneIdPerNodePerPass ==
    out.pc = "associated" =>
        /\ \A v, w \in RestoredByPass : v # w => tree.n[v].chromeId # tree.n[w].chromeId
        /\ out.usedWindowIds = {tree.n[w].chromeId : w \in RestoredByPass}
        /\ out.usedWindowNodes = RestoredByPass
        /\ Cardinality(out.usedWindowIds) = Cardinality(out.usedWindowNodes)
        /\ \A w \in SeqRange(RestorableWindows(out.before)) \ RestoredByPass :
              /\ w \in DOMAIN tree.n
              /\ tree.n[w] = out.before.n[w]
              /\ tree.c[w] = out.before.c[w]

\* both restorable window nodes held pages of window W1 and the first a page of window W2
\* too: the pass bound one node to each window
C34_Witness ==
    /\ out.pc = "associated"
    /\ Cardinality(RestoredByPass) = 2
    /\ \A w \in {1, 2} : Len(AllPairs(out.before, tabs, <<w>>, 1)) >= 1
    /\ Len(AllPairs(out.before, tabs, <<1, 2>>, 2)) = 3

(***************************************************************************)
(* The order in which a pass visits the pairs                              *)
(***************************************************************************)
\* the score 1.0 * n + 0.00001 * m in units of 0.00001
ScoreValue(score) == 100000 * score[1] + score[2]

PairsOfPass ==
    AllPairs(out.before, tabs, RestorableWindows(out.before), Len(RestorableWindows(out.before)))

\* C35: a pair with a higher score is visited before a pair with a lower score.
C35_HigherScoreFirst ==
    out.pc = "associated" =>
        \A p, q \in 1..Len(PairsOfPass) :
            ScoreValue(PairsOfPass[q].score) < ScoreValue(PairsOfPass[p].score)
                => VisitedBefore(PairsOfPass, p, q)

(***************************************************************************)
(* A pass that may not merge                                               *)
(***************************************************************************)
\* the window ids that window nodes of tree T are bound to
OwnedWindowIds(T) ==
    {T.n[w].chromeId : w \in {m \in DOMAIN T.n : T.n[m].kind = "window" /\ T.n[m].chromeId # NoId}}

\* the pairs of the pass that the test of line 1594 lets through
EligiblePairs ==
    {p \in 1..Len(PairsOfPass) :
        out.require =>
            Len(LiveMatching(out.before, tabs, PairsOfPass[p].win))
                = windowTabCounts(tabs, PairsOfPass[p].windowId)}

\* C36: in a pass that may not merge, nothing is merged; a window id that a window node
\* owns is given to no restorable window node and is not marked as used; a restorable
\* window node that is not restored is marked as used by no pair and is as it was; and a
\* pair with an id that no node owns is passed over only for a node or an id that the
\* pass has given away.
C36_ProhibitedPairSkipped ==
    (out.pc = "associated" /\ out.prohibit) =>
        /\ out.merges = 0
        /\ DOMAIN tree.n = DOMAIN out.before.n
        /\ tree.c = out.before.c
        /\ out.usedWindowIds \cap OwnedWindowIds(out.before) = {}
        /\ out.usedWindowNodes = RestoredByPass
        /\ \A w \in SeqRange(RestorableWindows(out.before)) \ RestoredByPass :
              tree.n[w] = out.before.n[w]
        /\ \A p \in EligiblePairs :
              PairsOfPass[p].windowId \notin OwnedWindowIds(out.before) =>
                  \/ PairsOfPass[p].win \in RestoredByPass
                  \/ \E v \in RestoredByPass : tree.n[v].chromeId = PairsOfPass[p].windowId

\* merging was prohibited and the first restorable window node had pairs with window W1,
\* which a live node owned, and with window W2: the pair with W1 was visited first and
\* passed over, the node was then restored as window W2, and the other restorable node,
\* which had a pair with W1 only, is restorable, hibernated and unbound
C36_Witness ==
    /\ out.pc = "associated"
    /\ out.prohibit
    /\ W1 \in OwnedWindowIds(out.before)
    /\ \E p, q \in 1..Len(PairsOfPass) :
          /\ PairsOfPass[p].win = 1 /\ PairsOfPass[p].windowId = W1
          /\ PairsOfPass[q].win = 1 /\ PairsOfPass[q].windowId = W2
          /\ VisitedBefore(PairsOfPass, p, q)
    /\ tree.n[1].chromeId = W2
    /\ \E p \in EligiblePairs : PairsOfPass[p].win = 2
    /\ tree.n[2].restorable /\ tree.n[2].hibernated /\ tree.n[2].chromeId = NoId

(***************************************************************************)
(* fixBadNodes on trees whose window nodes are bound to different windows. *)
(* The children of the root are up to MaxStrayRoot nodes: the i-th is a    *)
(* window node of window W1 + i - 1, popup or not, with the page of tab i, *)
(* or the page of tab i as a stray, bound to a tab of the window strayIn.  *)
(***************************************************************************)
MaxStrayRoot == 3

StrayWindowIds == {W1 + i - 1 : i \in 1..MaxStrayRoot}

StrayChoices ==
    [root : UNION {[1..k -> FixKinds] : k \in 1..MaxStrayRoot}, strayIn : StrayWindowIds]

StrayTabsOf(ch) ==
    [i \in DOMAIN ch.root |->
        Tab(IF ch.root[i] = "page" THEN ch.strayIn ELSE W1 + i - 1, 0, "a", "", FALSE, FALSE,
            "ok", FALSE)]

RECURSIVE AddStrayRoot(_, _, _)
AddStrayRoot(T, ch, i) ==
    IF i > Len(ch.root) THEN T
    ELSE LET page == LPage(StrayTabsOf(ch)[i], i)
             window == [WindowNode(W1 + i - 1, FALSE) EXCEPT
                           !.type = IF ch.root[i] = "popup" THEN "popup" ELSE "normal"]
         IN AddStrayRoot(IF ch.root[i] = "page" THEN addNode(T, page, Root)
                         ELSE addNode(addNode(T, window, Root), page, T.next),
                         ch, i + 1)

InitStray ==
    \E ch \in StrayChoices :
        /\ AtRest(StrayTabsOf(ch), AddStrayRoot(EmptyTree, ch, 1))
        /\ out = [pc |-> "input"]

NextStray == FixBad

SpecStray == InitStray /\ [][NextStray]_vars

\* the window nodes of tree T that are bound to a window
BoundWindowNodes(T) == {m \in DOMAIN T.n : T.n[m].kind = "window" /\ T.n[m].chromeId # NoId}

\* C37: no two window nodes are bound to the same window id.
C37_WindowIdsUnique ==
    \A v, w \in BoundWindowNodes(tree) : v # w => tree.n[v].chromeId # tree.n[w].chromeId

(***************************************************************************)
(* disambiguatePageNodesByWindowId followed through its loops: a round     *)
(* begins by grouping, each group is taken in turn, and each item of a      *)
(* group is one step.  out.items is the list taken as the round began, so   *)
(* a member of it may have been put under its window by an earlier step.    *)
(***************************************************************************)
MaxSwapNodes == 3

NoSwap == [item |-> NoId, partner |-> NoId]

InitSwaps ==
    \E choice \in [1..MaxSwapNodes -> PartnerChoices], iterations \in IterationsArgs :
        /\ AtRest(PartnerTabsOf(choice), PartnerTreeOf(choice))
        /\ out = [pc |-> "round", arg |-> iterations,
                  iterations |-> IF iterations = {} THEN DEFAULT_DISAMBIGUATION_ITERATIONS
                                 ELSE CHOOSE k \in iterations : TRUE,
                  D |-> [tree |-> PartnerTreeOf(choice), swapCount |-> 0, swaps |-> 0,
                         rounds |-> 0, missed |-> {}, swapped |-> {}, logged |-> {},
                         before |-> PartnerTreeOf(choice)],
                  first |-> PartnerTreeOf(choice), T0 |-> PartnerTreeOf(choice),
                  keys |-> {}, items |-> <<>>, i |-> 0, last |-> NoSwap, lastBefore |-> EmptyTree]

UnchangedBySwaps ==
    UNCHANGED <<tabs, associationRuns, associationStubbornTabIds, associationConcurrentRuns,
                associationGetDetailsRetryList, nextRunId, runTimers, rectTimer, startQueries,
                newTabQueries, details, tabsGets, rect, movers, existing, asked, ticks,
                escalatedAt, extStarts, rectStarted>>

\* lines 1645-1664: swapCount starts at 0 and the groups are taken from the tree
BeginRound ==
    /\ out.pc = "round"
    /\ out' = [out EXCEPT !.pc = "groups",
                          !.D = [out.D EXCEPT !.swapCount = 0, !.missed = {}, !.swapped = {},
                                              !.rounds = @ + 1, !.before = tree],
                          !.T0 = tree, !.keys = DisambiguationKeys(tree),
                          !.items = <<>>, !.i = 0, !.last = NoSwap]
    /\ tree' = tree
    /\ lastEvent' = Event("round", NoId)
    /\ UnchangedBySwaps

\* lines 1665-1670: the next group; a group of fewer than two is passed over
NextGroup ==
    /\ out.pc = "groups"
    /\ out.keys # {}
    /\ LET key == CHOOSE k \in out.keys : TRUE
           items == DisambiguationGroup(out.T0, key)
       IN out' = IF Len(items) < 2
                 THEN [out EXCEPT !.keys = @ \ {key}, !.last = NoSwap]
                 ELSE [out EXCEPT !.pc = "items", !.keys = @ \ {key}, !.items = items,
                                  !.i = 0, !.last = NoSwap]
    /\ tree' = tree
    /\ lastEvent' = Event("group", NoId)
    /\ UnchangedBySwaps

\* lines 1671-1723: the loop body for one position of the group
SwapStep ==
    /\ out.pc = "items"
    /\ out.i < Len(out.items)
    /\ LET item == out.items[((out.i + out.iterations) % Len(out.items)) + 1]
           D1 == DisambiguateItem(out.D, out.items, out.i, out.iterations)
           swapWith == SwapCandidates(tree, out.items, item)
       IN /\ tree' = D1.tree
          /\ out' = [out EXCEPT !.D = D1, !.i = @ + 1,
                                !.pc = IF out.i + 1 < Len(out.items) THEN "items" ELSE "groups",
                                !.last = IF D1.swaps > out.D.swaps
                                         THEN [item |-> item, partner |-> swapWith[1]]
                                         ELSE NoSwap,
                                !.lastBefore = tree]
    /\ lastEvent' = Event("swap", NoId)
    /\ UnchangedBySwaps

\* lines 1725-1729: another round with one iteration fewer, or the end
EndRound ==
    /\ out.pc = "groups"
    /\ out.keys = {}
    /\ out' = IF DisambiguateAgain(out.D.swapCount, out.iterations) /\ out.D.rounds < RoundFuel
              THEN [out EXCEPT !.pc = "round", !.iterations = @ - 1, !.last = NoSwap]
              ELSE [out EXCEPT !.pc = "done", !.last = NoSwap]
    /\ tree' = tree
    /\ lastEvent' = Event("end", NoId)
    /\ UnchangedBySwaps

NextSwaps == BeginRound \/ NextGroup \/ SwapStep \/ EndRound

SpecSwaps == InitSwaps /\ [][NextSwaps]_vars

\* the steps end where the call as a whole ends
SteppedAsWhole ==
    out.pc = "done" => tree = disambiguatePageNodesByWindowId(out.first, out.arg).tree

\* the number of bound page nodes whose windowId differs from the chromeId of their top parent
MismatchCount(T) == Cardinality({m \in DOMAIN T.n : Mismatched(T, m)})

\* C38: no swap raises the number of mismatched nodes, whichever preference found the
\* partner, and at no point of a round is the number above what it was as the round began.
C38_SwapsNeverRaiseMismatches ==
    /\ [][MismatchCount(tree') <= MismatchCount(tree)]_vars
    /\ [](out.pc \in {"groups", "items", "done"} =>
             MismatchCount(tree) <= MismatchCount(out.T0))

\* a swap has just exchanged a mismatched item with a partner that an earlier swap of the
\* round had already put under its window
C38_Witness ==
    /\ out.last.item # NoId
    /\ Mismatched(out.lastBefore, out.last.item)
    /\ ~Mismatched(out.lastBefore, out.last.partner)
    /\ tree = SwapForDisambiguation(out.lastBefore, out.last.item, out.last.partner)
====
